---- MODULE Spec2Model ----
(***************************************************************************)
(* GPU clip-mask management (GrClipMaskManager): the choice, per draw, of  *)
(* the clip representation (ignore, scissor, coverage processors, alpha    *)
(* mask, stencil mask) and its effect on the draw state, the scissor       *)
(* state, the mask cache and the stencil buffer's recorded clip.           *)
(***************************************************************************)
EXTENDS Integers, Naturals, Sequences, FiniteSets, TLC

(***************************************************************************)
(* Bounds of the model.                                                    *)
(***************************************************************************)
\* number of freely chosen elements of a reduced element list
MaxVaried == 1
\* render target size, in pixels
RTWidth == 2
RTHeight == 1
\* largest clip origin offset along x
MaxOrigin == 1
\* generation ids handed out by the clip stack
MaxGenID == 1
\* the largest user-bit pattern tried in the reference and the masks of a
\* stencil face
MaxStencilWord == 7
\* bit count of the stencil buffer attached to a render target that has one
StencilBits == 3
\* pixels of a mask whose content is followed pixel by pixel
MaskPixelCount == 2
\* longest element list composed into such a mask
MaxMaskElements == 2
\* deepest nesting of save and saveLayer calls on a recorder
MaxSaveDepth == 4
\* most recorded calls that carry a ref-counted argument
MaxRecordedRefs == 2
\* most owners a ref-counted object has before it is recorded
MaxOwners == 2

(***************************************************************************)
(* Program constants.                                                      *)
(***************************************************************************)
\* "if (elements.count() <= 4)"
kFastPathMaxElements == 4
\* "drawState.setAlpha(0xff)", "helper.clear(... ? 0xFF : 0x00)": full coverage
kFullCoverage == 255
\* "Ganesh only handles 16b or smaller stencil buffers"
kMaxStencilBits == 16

\* a pointer that may be NULL: the empty sequence, or the one thing pointed to
NULL == << >>

Ref(x) == <<x>>

Deref(p) == p[1]

(***************************************************************************)
(* Integer rectangles and points (SkIRect, SkRect with integer corners,    *)
(* SkIPoint).                                                              *)
(***************************************************************************)
MakeLTRB(l, t, r, b) == [fLeft |-> l, fTop |-> t, fRight |-> r, fBottom |-> b]

MakeWH(w, h) == MakeLTRB(0, 0, w, h)

MakePoint(x, y) == [fX |-> x, fY |-> y]

Negate(p) == MakePoint(0 - p.fX, 0 - p.fY)

Offset(r, p) ==
    MakeLTRB(r.fLeft + p.fX, r.fTop + p.fY, r.fRight + p.fX, r.fBottom + p.fY)

IsEmptyRect(r) == r.fLeft >= r.fRight \/ r.fTop >= r.fBottom

\* SkRect::contains(const SkRect&): an empty rectangle contains nothing and
\* is contained in nothing
RectContains(a, b) ==
    /\ ~IsEmptyRect(b)
    /\ ~IsEmptyRect(a)
    /\ a.fLeft <= b.fLeft
    /\ a.fTop <= b.fTop
    /\ a.fRight >= b.fRight
    /\ a.fBottom >= b.fBottom

(***************************************************************************)
(* Clip elements (SkClipStack::Element) as the manager sees them: the      *)
(* shape type, the set operator, the AA flag, the fill inversion, whether  *)
(* a coverage processor exists for the shape (GrConvexPolyEffect::Create   *)
(* or GrRRectEffect::Create returns non-NULL) and whether the shape        *)
(* contains the draw bounds (Element::contains).                           *)
(***************************************************************************)
ElementTypes == {"kRect_Type", "kRRect_Type", "kPath_Type"}

RegionOps == {"kDifference_Op", "kIntersect_Op", "kUnion_Op", "kXOR_Op",
              "kReverseDifference_Op", "kReplace_Op"}

Element(type, op, aa, inv, fp, big) ==
    [type |-> type, op |-> op, isAA |-> aa, isInverseFilled |-> inv,
     hasProcessor |-> fp, containsDraw |-> big]

\* the element that pads a list up to and beyond the fast-path threshold
PadElement == Element("kRect_Type", "kIntersect_Op", TRUE, FALSE, TRUE, FALSE)

ElementKinds ==
    { PadElement,
      Element("kRect_Type", "kReplace_Op", FALSE, FALSE, TRUE, TRUE),
      Element("kRRect_Type", "kDifference_Op", TRUE, FALSE, TRUE, TRUE),
      Element("kPath_Type", "kIntersect_Op", TRUE, FALSE, FALSE, FALSE),
      Element("kPath_Type", "kReverseDifference_Op", TRUE, TRUE, TRUE, FALSE),
      Element("kPath_Type", "kXOR_Op", FALSE, FALSE, TRUE, FALSE) }

SeqsUpTo(S, n) == UNION { [1..k -> S] : k \in 0..n }

Pad(n) == [i \in 1..n |-> PadElement]

\* a replace element is always the head of a reduced list
WellFormedList(s) == \A i \in 2..Len(s) : s[i].op # "kReplace_Op"

\* the reduced lists: the freely chosen elements, alone or with padding
\* before or after them that takes the list to the fast-path threshold and
\* across it
PadCounts == {0, kFastPathMaxElements - 1, kFastPathMaxElements}

ElementLists ==
    { l \in UNION { {Pad(n) \o s, s \o Pad(n)} :
                    n \in PadCounts, s \in SeqsUpTo(ElementKinds, MaxVaried) } :
        WellFormedList(l) }

(***************************************************************************)
(* Stencil settings (GrStencilSettings) and their resolution against the   *)
(* stencil clip bit.                                                       *)
(***************************************************************************)
BasicStencilFuncs == {"kAlways_StencilFunc", "kNever_StencilFunc",
                      "kGreater_StencilFunc", "kGEqual_StencilFunc",
                      "kLess_StencilFunc", "kLEqual_StencilFunc",
                      "kEqual_StencilFunc", "kNotEqual_StencilFunc"}

ClipStencilFuncs == {"kAlwaysIfInClip_StencilFunc", "kEqualIfInClip_StencilFunc",
                     "kLessIfInClip_StencilFunc", "kLEqualIfInClip_StencilFunc",
                     "kNonZeroIfInClip_StencilFunc"}

StencilClipModes == {"kModifyClip_StencilClipMode", "kRespectClip_StencilClipMode",
                     "kIgnoreClip_StencilClipMode"}

ClipMaskTypes == {"kNone_ClipMaskType", "kStencil_ClipMaskType", "kAlpha_ClipMaskType"}

Pow2(n) == 2 ^ n

RECURSIVE BitAnd(_, _)
BitAnd(a, b) ==
    IF a = 0 \/ b = 0 THEN 0
    ELSE 2 * BitAnd(a \div 2, b \div 2) + (IF a % 2 = 1 /\ b % 2 = 1 THEN 1 ELSE 0)

RECURSIVE BitOr(_, _)
BitOr(a, b) ==
    IF a = 0 THEN b
    ELSE IF b = 0 THEN a
    ELSE 2 * BitOr(a \div 2, b \div 2) + (IF a % 2 = 1 \/ b % 2 = 1 THEN 1 ELSE 0)

\* a value stored into a uint16_t
U16(x) == x % Pow2(16)

StencilFace(passOp, failOp, func, funcMask, funcRef, writeMask) ==
    [passOp |-> passOp, failOp |-> failOp, func |-> func,
     funcMask |-> funcMask, funcRef |-> funcRef, writeMask |-> writeMask]

SameStencil(passOp, failOp, func, funcMask, funcRef, writeMask) ==
    [front |-> StencilFace(passOp, failOp, func, funcMask, funcRef, writeMask),
     back |-> StencilFace(passOp, failOp, func, funcMask, funcRef, writeMask)]

\* GrStencilSettings::isDisabled
FaceDisabled(f) ==
    /\ f.passOp = "kKeep_StencilOp"
    /\ f.failOp = "kKeep_StencilOp"
    /\ f.func = "kAlways_StencilFunc"

IsDisabled(settings) == FaceDisabled(settings.front) /\ FaceDisabled(settings.back)

DisabledStencil ==
    SameStencil("kKeep_StencilOp", "kKeep_StencilOp", "kAlways_StencilFunc",
                Pow2(16) - 1, 0, Pow2(16) - 1)

\* the table with the non-zero test resolved to less-or-equal when the clip
\* is respected
gSpecialToBasicStencilFunc_NonZeroAsLEqual(respectClip, func) ==
    IF ~respectClip
    THEN CASE func = "kAlwaysIfInClip_StencilFunc" -> "kAlways_StencilFunc"
           [] func = "kEqualIfInClip_StencilFunc" -> "kEqual_StencilFunc"
           [] func = "kLessIfInClip_StencilFunc" -> "kLess_StencilFunc"
           [] func = "kLEqualIfInClip_StencilFunc" -> "kLEqual_StencilFunc"
           [] func = "kNonZeroIfInClip_StencilFunc" -> "kNotEqual_StencilFunc"
    ELSE CASE func = "kAlwaysIfInClip_StencilFunc" -> "kEqual_StencilFunc"
           [] func = "kEqualIfInClip_StencilFunc" -> "kEqual_StencilFunc"
           [] func = "kLessIfInClip_StencilFunc" -> "kLess_StencilFunc"
           [] func = "kLEqualIfInClip_StencilFunc" -> "kLEqual_StencilFunc"
           [] func = "kNonZeroIfInClip_StencilFunc" -> "kLEqual_StencilFunc"

\* gSpecialToBasicStencilFunc[respectClip][func - kBasicStencilFuncCount]
gSpecialToBasicStencilFunc(respectClip, func) ==
    IF ~respectClip
    THEN CASE func = "kAlwaysIfInClip_StencilFunc" -> "kAlways_StencilFunc"
           [] func = "kEqualIfInClip_StencilFunc" -> "kEqual_StencilFunc"
           [] func = "kLessIfInClip_StencilFunc" -> "kLess_StencilFunc"
           [] func = "kLEqualIfInClip_StencilFunc" -> "kLEqual_StencilFunc"
           [] func = "kNonZeroIfInClip_StencilFunc" -> "kNotEqual_StencilFunc"
    ELSE CASE func = "kAlwaysIfInClip_StencilFunc" -> "kEqual_StencilFunc"
           [] func = "kEqualIfInClip_StencilFunc" -> "kEqual_StencilFunc"
           [] func = "kLessIfInClip_StencilFunc" -> "kLess_StencilFunc"
           [] func = "kLEqualIfInClip_StencilFunc" -> "kLEqual_StencilFunc"
           [] func = "kNonZeroIfInClip_StencilFunc" -> "kLess_StencilFunc"

basic_apply_stencil_clip_settings ==
    SameStencil("kKeep_StencilOp", "kKeep_StencilOp", "kAlwaysIfInClip_StencilFunc",
                0, 0, 0)

\* "unsigned int clipBit = (1 << (stencilBitCnt - 1))", as far as the 16 bits
\* of a stencil value see it.  A shift by a negative count is undefined: the
\* builds give 0 or the top bit of the 32-bit word, and in both cases the low
\* 16 bits of clipBit are 0 and those of clipBit - 1 are all set.
ClipBits_ShiftByWidth(stencilBitCnt) ==
    IF stencilBitCnt > 0 THEN {Pow2(stencilBitCnt)} ELSE {0}

ClipBits(stencilBitCnt) ==
    IF stencilBitCnt > 0 THEN {Pow2(stencilBitCnt - 1)} ELSE {0}

\* "unsigned int userBits = clipBit - 1", as the uint16_t masks see it
UserBits(clipBit) == (clipBit + Pow2(16) - 1) % Pow2(16)

\* createStencilClipMask, lines 908-910: "clipBit = (1 << (clipBit-1))" of the
\* bits of a stencil buffer (Ganesh handles 16 bits or fewer)
StencilBufferClipBit(bits) == Pow2(bits - 1)

\* one turn of the loop without "writeMask &= userBits"
AdjustFace_WriteMaskKept(f, mode, clipBit) ==
    LET userBits == UserBits(clipBit)
        respectClip == mode = "kRespectClip_StencilClipMode"
        special == f.func \in ClipStencilFuncs
        funcMask ==
            IF special /\ respectClip
            THEN IF f.func = "kAlwaysIfInClip_StencilFunc"
                 THEN clipBit
                 ELSE BitOr(BitAnd(f.funcMask, userBits), clipBit)
            ELSE BitAnd(f.funcMask, userBits)
        funcRef ==
            IF special /\ respectClip
            THEN IF f.func \in {"kAlwaysIfInClip_StencilFunc",
                                "kNonZeroIfInClip_StencilFunc"}
                 THEN clipBit
                 ELSE BitOr(BitAnd(f.funcRef, userBits), clipBit)
            ELSE BitAnd(f.funcRef, userBits)
        func == IF special THEN gSpecialToBasicStencilFunc(respectClip, f.func)
                ELSE f.func
    IN  [f EXCEPT !.func = func, !.funcMask = U16(funcMask), !.funcRef = U16(funcRef)]

\* one turn of the loop of adjustStencilParams, for one face
AdjustFace(f, mode, clipBit) ==
    LET userBits == UserBits(clipBit)
        respectClip == mode = "kRespectClip_StencilClipMode"
        writeMask == BitAnd(f.writeMask, userBits)
        special == f.func \in ClipStencilFuncs
        funcMask ==
            IF special /\ respectClip
            THEN IF f.func = "kAlwaysIfInClip_StencilFunc"
                 THEN clipBit
                 ELSE BitOr(BitAnd(f.funcMask, userBits), clipBit)
            ELSE BitAnd(f.funcMask, userBits)
        funcRef ==
            IF special /\ respectClip
            THEN IF f.func \in {"kAlwaysIfInClip_StencilFunc",
                                "kNonZeroIfInClip_StencilFunc"}
                 THEN clipBit
                 ELSE BitOr(BitAnd(f.funcRef, userBits), clipBit)
            ELSE BitAnd(f.funcRef, userBits)
        func == IF special THEN gSpecialToBasicStencilFunc(respectClip, f.func)
                ELSE f.func
    IN  [f EXCEPT !.func = func, !.writeMask = U16(writeMask),
                  !.funcMask = U16(funcMask), !.funcRef = U16(funcRef)]

\* adjustStencilParams without the early return of the modify mode
adjustStencilParams_ModifyAdjusted(settings, mode, stencilBitCnt, twoSided) ==
    { LET front == AdjustFace(settings.front, mode, clipBit)
      IN  [front |-> front,
           back |-> IF twoSided THEN AdjustFace(settings.back, mode, clipBit)
                    ELSE front] :
      clipBit \in ClipBits(stencilBitCnt) }

\* adjustStencilParams without copyFrontSettingsToBack
adjustStencilParams_BackLeft(settings, mode, stencilBitCnt, twoSided) ==
    IF mode = "kModifyClip_StencilClipMode" THEN {settings}
    ELSE { [front |-> AdjustFace(settings.front, mode, clipBit),
            back |-> IF twoSided THEN AdjustFace(settings.back, mode, clipBit)
                     ELSE settings.back] :
           clipBit \in ClipBits(stencilBitCnt) }

\* the settings adjustStencilParams can leave behind
adjustStencilParams(settings, mode, stencilBitCnt, twoSided) ==
    IF mode = "kModifyClip_StencilClipMode" THEN {settings}
    ELSE { LET front == AdjustFace(settings.front, mode, clipBit)
           IN  [front |-> front,
                back |-> IF twoSided THEN AdjustFace(settings.back, mode, clipBit)
                         ELSE front] :
           clipBit \in ClipBits(stencilBitCnt) }

(***************************************************************************)
(* The state a setupClipping call works on, bundled:                       *)
(*   type, mode   fCurrClipMaskType, fClipMode                             *)
(*   cache        fAACache: NULL, or the key and the mask texture          *)
(*   lastClip     the clip recorded by the stencil buffer (setLastClip)    *)
(*   clipDrawn    the elements whose clip-bit passes have been rendered    *)
(*   ds           the caller's GrDrawState                                 *)
(*   are, ars     the caller's AutoRestoreEffects / AutoRestoreStencil     *)
(*   scissor      the caller's ScissorState                                *)
(*   trace        what the call did: the representations it tried, in      *)
(*                order, and the events met on the way                     *)
(***************************************************************************)
Ev(m, e) == [m EXCEPT !.trace.events = @ \cup {e}]

Tried(m, r) == [m EXCEPT !.trace.tried = Append(@, r)]

Outcome(m, ret) == [m |-> m, ret |-> ret]

Truncate(s, n) == IF Len(s) > n THEN SubSeq(s, 1, n) ELSE s

\* GrDrawState::AutoRestoreEffects::set: restore the draw state held so far to
\* the processor counts saved for it, then (ds non-NULL) save the counts of ds
AutoRestoreEffectsSet(m, ds) ==
    LET restored ==
            IF m.are = NULL THEN m.ds
            ELSE [m.ds EXCEPT !.color = Truncate(@, Deref(m.are).fColorEffectCnt),
                              !.coverage = Truncate(@, Deref(m.are).fCoverageEffectCnt)]
    IN  [m EXCEPT !.ds = restored,
                  !.are = IF ds THEN Ref([fColorEffectCnt |-> Len(restored.color),
                                          fCoverageEffectCnt |-> Len(restored.coverage)])
                          ELSE NULL]

\* GrDrawState::AutoRestoreStencil::set
AutoRestoreStencilSet(m) ==
    LET restored == IF m.ars = NULL THEN m.ds
                    ELSE [m.ds EXCEPT !.stencil = Deref(m.ars)]
    IN  [m EXCEPT !.ds = restored, !.ars = Ref(restored.stencil)]

\* the entry of setupClipping with the clip mode left as it was
ResetClipMaskState_ModeKept(m) == [m EXCEPT !.type = "kNone_ClipMaskType"]

\* the entry of setupClipping
ResetClipMaskState(m) ==
    [m EXCEPT !.type = "kNone_ClipMaskType",
              !.mode = IF @ = "kRespectClip_StencilClipMode"
                       THEN "kIgnoreClip_StencilClipMode" ELSE @]

\* a draw or clear issued through fClipTarget while a mask is built: it
\* re-enters setupClipping with the mask bounds as the only clip, which is
\* resolved without building a mask
NestedDraw(m) == ResetClipMaskState(m)

(***************************************************************************)
(* installClipEffects                                                      *)
(***************************************************************************)
EdgeType(invert, aa) ==
    IF aa THEN (IF invert THEN "kInverseFillAA_GrProcessorEdgeType"
                ELSE "kFillAA_GrProcessorEdgeType")
    ELSE (IF invert THEN "kInverseFillBW_GrProcessorEdgeType"
          ELSE "kFillBW_GrProcessorEdgeType")

ClipProcessor(e, i, edgeType) ==
    [effect |-> IF e.type = "kRRect_Type" THEN "GrRRectEffect" ELSE "GrConvexPolyEffect",
     edgeType |-> edgeType, element |-> i, texture |-> NULL, domain |-> MakeWH(0, 0)]

\* one turn of the while loop of installClipEffects: the element makes the
\* loop fail, is skipped, or gets a coverage processor
ClipEffectFor_NoDifference(e, hasDrawBounds, isMultisampled) ==
    IF e.op \notin {"kReplace_Op", "kIntersect_Op"} THEN "failed"
    ELSE IF hasDrawBounds /\ e.containsDraw THEN "skip"
    ELSE IF e.isAA /\ isMultisampled THEN "failed"
    ELSE IF ~e.hasProcessor THEN "failed"
    ELSE "add"

\* a difference element given the cheap containment test of the other two
ClipEffectFor_SkipsDifference(e, hasDrawBounds, isMultisampled) ==
    IF e.op \notin {"kReplace_Op", "kIntersect_Op", "kDifference_Op"} THEN "failed"
    ELSE IF hasDrawBounds /\ e.containsDraw THEN "skip"
    ELSE IF e.isAA /\ isMultisampled THEN "failed"
    ELSE IF ~e.hasProcessor THEN "failed"
    ELSE "add"

ClipEffectFor(e, hasDrawBounds, isMultisampled) ==
    IF e.op \notin {"kReplace_Op", "kIntersect_Op", "kDifference_Op"} THEN "failed"
    ELSE IF e.op # "kDifference_Op" /\ hasDrawBounds /\ e.containsDraw THEN "skip"
    ELSE IF e.isAA /\ isMultisampled THEN "failed"
    ELSE IF ~e.hasProcessor THEN "failed"
    ELSE "add"

\* the while loop of installClipEffects from element i on: the draw state it
\* leaves and whether it failed
RECURSIVE InstallLoop(_, _, _, _, _)
InstallLoop(ds, elements, i, hasDrawBounds, isMultisampled) ==
    IF i > Len(elements) THEN [ds |-> ds, failed |-> FALSE]
    ELSE LET e == elements[i]
             invert == e.op = "kDifference_Op"
             step == ClipEffectFor(e, hasDrawBounds, isMultisampled)
         IN  IF step = "failed" THEN [ds |-> ds, failed |-> TRUE]
             ELSE IF step = "skip"
                  THEN InstallLoop(ds, elements, i + 1, hasDrawBounds, isMultisampled)
             ELSE InstallLoop(
                    [ds EXCEPT !.coverage =
                        Append(@, ClipProcessor(e, i, EdgeType(invert, e.isAA)))],
                    elements, i + 1, hasDrawBounds, isMultisampled)

\* installClipEffects without "if (failed) are->set(NULL)"
installClipEffects_NoRestore(m, elements, hasDrawBounds, isMultisampled) ==
    LET armed == AutoRestoreEffectsSet(m, TRUE)
        loop == InstallLoop(armed.ds, elements, 1, hasDrawBounds, isMultisampled)
    IN  Outcome([armed EXCEPT !.ds = loop.ds], ~loop.failed)

installClipEffects(m, elements, hasDrawBounds, isMultisampled) ==
    LET armed == AutoRestoreEffectsSet(m, TRUE)
        loop == InstallLoop(armed.ds, elements, 1, hasDrawBounds, isMultisampled)
        added == [armed EXCEPT !.ds = loop.ds]
    IN  IF loop.failed
        THEN Outcome(AutoRestoreEffectsSet(added, FALSE), FALSE)
        ELSE Outcome(added, TRUE)

(***************************************************************************)
(* setDrawStateStencil                                                     *)
(***************************************************************************)
setDrawStateStencil(m, stencilBits, twoSided) ==
    IF IsDisabled(m.ds.stencil) /\ m.mode # "kRespectClip_StencilClipMode"
    THEN {m}
    ELSE LET settings == IF IsDisabled(m.ds.stencil)
                         THEN basic_apply_stencil_clip_settings
                         ELSE m.ds.stencil
             saved == AutoRestoreStencilSet(m)
             noted == IF stencilBits > 0 THEN saved
                      ELSE Ev(saved, "assert stencilBitCnt > 0")
         IN  { [noted EXCEPT !.ds.stencil = adjusted] :
               adjusted \in adjustStencilParams(settings, m.mode, stencilBits, twoSided) }

(***************************************************************************)
(* The mask cache (fAACache) and the alpha mask.  A mask texture is known  *)
(* by the initial state it was cleared to and the elements composed into   *)
(* it so far.  The stencil buffer starts with no clip recorded.            *)
(***************************************************************************)
MaskTexture(initialState, drawn) == [initialState |-> initialState, drawn |-> drawn]

CacheEntry(genID, bounds, mask) ==
    [fLastClipGenID |-> genID, fLastBound |-> bounds, fLastMask |-> mask]

\* GrClipMaskCache::canReuse
canReuse(cache, genID, bounds) ==
    /\ cache # NULL
    /\ Deref(cache).fLastMask # NULL
    /\ Deref(cache).fLastClipGenID = genID
    /\ Deref(cache).fLastBound = bounds

getLastMask(cache) == IF cache = NULL THEN NULL ELSE Deref(cache).fLastMask

\* a lookup that never finds the mask
getCachedMaskTexture_NeverCached(m, genID, bounds) == NULL

getCachedMaskTexture(m, genID, bounds) ==
    IF canReuse(m.cache, genID, bounds) THEN getLastMask(m.cache) ELSE NULL

\* a mask acquired under the key of the mask it replaces
allocMaskTexture_StaleKey(m, genID, bounds, initialState, allocated) ==
    LET mask == IF allocated THEN Ref(MaskTexture(initialState, {})) ELSE NULL
    IN  [m EXCEPT !.cache =
            IF m.cache = NULL THEN Ref(CacheEntry(genID, bounds, mask))
            ELSE Ref([Deref(m.cache) EXCEPT !.fLastMask = mask])]

\* allocMaskTexture: the cached mask is dropped, then a texture is acquired
\* under the new key; allocated tells whether the context had one to give
allocMaskTexture(m, genID, bounds, initialState, allocated) ==
    [m EXCEPT !.cache =
        Ref(CacheEntry(genID, bounds,
                       IF allocated THEN Ref(MaskTexture(initialState, {})) ELSE NULL))]

CacheReset(m) == [m EXCEPT !.cache = NULL]

Composed(m, i) == [m EXCEPT !.cache[1].fLastMask[1].drawn = @ \cup {i}]

\* drawElement: a rect is always drawn; any other shape needs the path
\* renderer handed in, or one found by the path renderer chain
drawElement(e, pr, found) == e.type = "kRect_Type" \/ pr \/ found

\* canStencilAndDrawElement
canStencilAndDrawElement(e, found) == e.type = "kRect_Type" \/ found

TwoPhase(e) ==
    \/ e.isInverseFilled
    \/ e.op = "kIntersect_Op"
    \/ e.op = "kReverseDifference_Op"

Lookups(e) == IF e.type = "kRect_Type" THEN {TRUE} ELSE BOOLEAN

\* the element loop of createAlphaClipMask from element i on; temp tells
\* whether the scratch texture exists already.  The answers of the path
\* renderer chain and of the texture allocator are not the manager's to
\* choose: every answer is followed.
RECURSIVE AlphaLoop(_, _, _, _)
AlphaLoop(m, temp, elements, i) ==
    IF i > Len(elements)
    THEN {Outcome([m EXCEPT !.type = "kAlpha_ClipMaskType"], getLastMask(m.cache))}
    ELSE LET e == elements[i]
         IN  IF TwoPhase(e)
             THEN UNION {
                    IF ~canStencilAndDrawElement(e, sc)
                    THEN UNION {
                           IF ~tempOK
                           THEN {Outcome(CacheReset(Ev(m, "createTempMask failed")), NULL)}
                           ELSE UNION {
                                  IF ~drawElement(e, FALSE, found)
                                  THEN {Outcome(CacheReset(Ev(m, "drawElement failed")),
                                                NULL)}
                                  ELSE AlphaLoop(Composed(NestedDraw(Ev(m, "mergeMask")), i),
                                                 TRUE, elements, i + 1)
                                  : found \in Lookups(e) }
                           : tempOK \in (IF temp THEN {TRUE} ELSE BOOLEAN) }
                    ELSE AlphaLoop(Composed(NestedDraw(Ev(m, "stencil in element")), i),
                                   temp, elements, i + 1)
                    : sc \in Lookups(e) }
             ELSE UNION {
                    IF drawElement(e, FALSE, found)
                    THEN AlphaLoop(Composed(NestedDraw(Ev(m, "direct draw")), i),
                                   temp, elements, i + 1)
                    ELSE AlphaLoop(Ev(m, "drawElement failed, ignored"),
                                   temp, elements, i + 1)
                    : found \in Lookups(e) }

createAlphaClipMask(m, genID, initialState, elements, bounds) ==
    LET cached == getCachedMaskTexture(m, genID, bounds)
    IN  IF cached # NULL
        THEN {Outcome([Ev(m, "cache hit") EXCEPT !.type = "kAlpha_ClipMaskType"], cached)}
        ELSE UNION {
               LET a == allocMaskTexture(m, genID, bounds, initialState, allocated)
               IN  IF getLastMask(a.cache) = NULL
                   THEN {Outcome(CacheReset(Ev(a, "allocMaskTexture failed")), NULL)}
                   ELSE AlphaLoop(NestedDraw(Ev(a, "clear mask")), FALSE, elements, 1)
               : allocated \in BOOLEAN }

\* useSWOnlyPath: true as soon as one non-rect element has no GPU path
\* renderer
useSWOnlyPath(elements) ==
    IF \E i \in 1..Len(elements) : elements[i].type # "kRect_Type"
    THEN BOOLEAN ELSE {FALSE}

createSoftwareClipMask(m, genID, initialState, elements, bounds) ==
    LET cached == getCachedMaskTexture(m, genID, bounds)
    IN  IF cached # NULL
        THEN {Outcome(Ev(m, "cache hit"), cached)}
        ELSE UNION {
               LET a == allocMaskTexture(Ev(m, "software mask drawn"), genID, bounds,
                                         initialState, allocated)
               IN  IF getLastMask(a.cache) = NULL
                   THEN {Outcome(CacheReset(Ev(a, "allocMaskTexture failed")), NULL)}
                   ELSE LET up == [a EXCEPT !.cache[1].fLastMask[1].drawn = 1..Len(elements),
                                            !.type = "kAlpha_ClipMaskType"]
                        IN  {Outcome(up, getLastMask(up.cache))}
               : allocated \in BOOLEAN }

(***************************************************************************)
(* The stencil mask.                                                       *)
(***************************************************************************)
ClipKey(genID, bounds, offset) == [genID |-> genID, bounds |-> bounds, offset |-> offset]

\* the stencil buffer of a new render target: kInvalidGenID and empty bounds
InvalidClipKey == ClipKey(0, MakeWH(0, 0), MakePoint(0, 0))

\* a stencil buffer that asks for its clip to be rendered every time
mustRenderClip_Always(lastClip, key) == TRUE

\* GrStencilBuffer::mustRenderClip
mustRenderClip(lastClip, key) == lastClip # key

\* the element loop with "fClipMode = kIgnoreClip_StencilClipMode" moved
\* behind the path renderer lookup
RECURSIVE StencilLoop_IgnoreAfterLookup(_, _, _)
StencilLoop_IgnoreAfterLookup(m, elements, i) ==
    IF i > Len(elements) THEN {Outcome(m, TRUE)}
    ELSE LET e == elements[i]
             ignoring == [m EXCEPT !.mode = "kIgnoreClip_StencilClipMode"]
         IN  UNION {
               IF e.type # "kRect_Type" /\ ~found
               THEN {Outcome(Ev(m, "no stencil path renderer"), FALSE)}
               ELSE LET userBits == NestedDraw(ignoring)
                        modifying == [userBits EXCEPT
                                         !.mode = "kModifyClip_StencilClipMode"]
                        passes == NestedDraw(modifying)
                    IN  StencilLoop_IgnoreAfterLookup(
                            [passes EXCEPT !.clipDrawn = @ \cup {i}], elements, i + 1)
               : found \in Lookups(e) }

\* the element loop of createStencilClipMask from element i on
RECURSIVE StencilLoop(_, _, _)
StencilLoop(m, elements, i) ==
    IF i > Len(elements) THEN {Outcome(m, TRUE)}
    ELSE LET e == elements[i]
             ignoring == [m EXCEPT !.mode = "kIgnoreClip_StencilClipMode"]
         IN  UNION {
               IF e.type # "kRect_Type" /\ ~found
               THEN {Outcome(Ev(ignoring, "no stencil path renderer"), FALSE)}
               ELSE LET userBits == NestedDraw(ignoring)
                        modifying == [userBits EXCEPT
                                         !.mode = "kModifyClip_StencilClipMode"]
                        passes == NestedDraw(modifying)
                    IN  StencilLoop([passes EXCEPT !.clipDrawn = @ \cup {i}],
                                    elements, i + 1)
               : found \in Lookups(e) }

\* lines 1029-1031: the stencil clip is there, later draws respect it
StencilMaskBuilt_ModeLeft(m) == [m EXCEPT !.type = "kStencil_ClipMaskType"]

StencilMaskBuilt(m) ==
    [m EXCEPT !.type = "kStencil_ClipMaskType", !.mode = "kRespectClip_StencilClipMode"]

createStencilClipMask(m, stencilBits, genID, initialState, elements, bounds, offset) ==
    IF stencilBits = 0 THEN {Outcome(Ev(m, "no stencil buffer"), FALSE)}
    ELSE LET key == ClipKey(genID, bounds, offset)
             rendered ==
                 IF mustRenderClip(m.lastClip, key)
                 THEN StencilLoop(
                        NestedDraw([Ev(m, "clearStencilClip") EXCEPT
                                       !.lastClip = key, !.clipDrawn = {}]),
                        elements, 1)
                 ELSE {Outcome(Ev(m, "stencil clip reused"), TRUE)}
         IN  { IF o.ret
               THEN Outcome(StencilMaskBuilt(o.m), TRUE)
               ELSE o
               : o \in rendered }

(***************************************************************************)
(* setupClipping                                                           *)
(***************************************************************************)
Processor(effect, edgeType, element, texture, domain) ==
    [effect |-> effect, edgeType |-> edgeType, element |-> element,
     texture |-> texture, domain |-> domain]

\* ScissorState::set
ScissorSet(m, rect) == [m EXCEPT !.scissor = [fEnabled |-> TRUE, fRect |-> rect]]

\* the mask processor put in the place of the coverage processors
setup_drawstate_aaclip_Replacing(m, devBound, result) ==
    [m EXCEPT !.ds.coverage =
        <<Processor("GrTextureDomainEffect", "kDecal_Mode", 0, result, devBound)>>]

\* setup_drawstate_aaclip: the mask becomes a coverage processor, a texture
\* domain in decal mode placed at devBound
setup_drawstate_aaclip(m, devBound, result) ==
    [m EXCEPT !.ds.coverage =
        Append(@, Processor("GrTextureDomainEffect", "kDecal_Mode", 0, result, devBound))]

\* GrReducedClip::ReduceClipStack reports requiresAA when an element of the
\* reduced list is antialiased
RequiresAA(elements) == \E i \in 1..Len(elements) : elements[i].isAA

Returns(ms, ret) == { Outcome(m, ret) : m \in ms }

\* "bool ignoreClip = !drawState->isClipState() || clipDataIn->fClipStack->isWideOpen()"
IgnoreClip_ClipStateOnly(ds, a) == ~ds.isClipState

IgnoreClip(ds, a) == ~ds.isClipState \/ a.wideOpen

\* the render target bounds in clip space
ClipSpaceRTIBounds_NoOffset(origin) == MakeWH(RTWidth, RTHeight)

ClipSpaceRTIBounds(origin) == Offset(MakeWH(RTWidth, RTHeight), origin)

\* an empty reduced list that starts all out: nothing can be drawn
NothingToDraw_Never(a) == FALSE

NothingToDraw(a) == Len(a.elements) = 0 /\ a.initialState # "kAllIn_InitialState"

\* the reduced bounds in the space of the scissor (and of the stencil)
ScissorSpaceIBounds_NoOffset(a) == a.bounds

ScissorSpaceIBounds(a) == Offset(a.bounds, Negate(a.origin))

\* "if (result)": the mask construction gave a texture
MaskCreated_Always(result) == TRUE

MaskCreated(result) == result # NULL

\* the stencil fallback without "fAACache.reset()"
StencilFallback_CacheKept(m, a, stencilBits, twoSided) ==
    LET clipSpaceToStencilSpaceOffset == Negate(a.origin)
        built == createStencilClipMask(Tried(m, "stencil"), stencilBits, a.genID,
                                       a.initialState, a.elements, a.bounds,
                                       clipSpaceToStencilSpaceOffset)
    IN  UNION { Returns(setDrawStateStencil(
                            ScissorSet(o.m, Offset(a.bounds, clipSpaceToStencilSpaceOffset)),
                            stencilBits, twoSided), TRUE)
                : o \in built }

\* lines 512-535: the stencil fallback
StencilFallback(m, a, stencilBits, twoSided) ==
    LET clipSpaceToStencilSpaceOffset == Negate(a.origin)
        reset == CacheReset(Tried(m, "stencil"))
        built == createStencilClipMask(reset, stencilBits, a.genID, a.initialState,
                                       a.elements, a.bounds,
                                       clipSpaceToStencilSpaceOffset)
    IN  UNION { Returns(setDrawStateStencil(
                            ScissorSet(o.m, Offset(a.bounds, clipSpaceToStencilSpaceOffset)),
                            stencilBits, twoSided), TRUE)
                : o \in built }

\* "if (0 == rt->numSamples() && requiresAA)"
WantsAlphaMask_AnyTarget(a, numSamples) == RequiresAA(a.elements)

WantsAlphaMask(a, numSamples) == numSamples = 0 /\ RequiresAA(a.elements)

\* lines 480-510: the alpha mask, rendered by the GPU or in software
AlphaMaskPath(m, a, numSamples, stencilBits, twoSided) ==
    IF WantsAlphaMask(a, numSamples)
    THEN UNION {
           UNION { IF MaskCreated(o.ret)
                   THEN Returns(setDrawStateStencil(
                                    setup_drawstate_aaclip(
                                        o.m, Offset(a.bounds, Negate(a.origin)), o.ret),
                                    stencilBits, twoSided), TRUE)
                   ELSE StencilFallback(o.m, a, stencilBits, twoSided)
                   : o \in IF sw
                           THEN createSoftwareClipMask(
                                    Ev(Tried(m, "alpha"), "createSoftwareClipMask"),
                                    a.genID, a.initialState, a.elements, a.bounds)
                           ELSE createAlphaClipMask(
                                    Ev(Tried(m, "alpha"), "createAlphaClipMask"),
                                    a.genID, a.initialState, a.elements, a.bounds) }
           : sw \in useSWOnlyPath(a.elements) }
    ELSE StencilFallback(m, a, stencilBits, twoSided)

\* "if (elements.count() <= 4)"
FastPathEligible_Always(elements) == TRUE

FastPathEligible(elements) == Len(elements) <= kFastPathMaxElements

\* the fast path with a failure of installClipEffects handed to the caller
FastPath_FailureReturned(m, a, numSamples, stencilBits, twoSided) ==
    IF FastPathEligible(a.elements)
    THEN LET installed ==
                 IF Len(a.elements) = 0 THEN Outcome(Tried(m, "fast"), TRUE)
                 ELSE IF RequiresAA(a.elements)
                      THEN installClipEffects(Tried(m, "fast"), a.elements,
                                              a.devBounds # NULL, numSamples # 0)
                      ELSE Outcome(m, FALSE)
             scissorSpaceIBounds == ScissorSpaceIBounds(a)
             scissored ==
                 IF a.devBounds = NULL
                    \/ ~RectContains(scissorSpaceIBounds, Deref(a.devBounds))
                 THEN ScissorSet(installed.m, scissorSpaceIBounds)
                 ELSE installed.m
         IN  IF installed.ret
             THEN Returns(setDrawStateStencil(scissored, stencilBits, twoSided), TRUE)
             ELSE IF RequiresAA(a.elements)
                  THEN {Outcome(installed.m, FALSE)}
                  ELSE AlphaMaskPath(installed.m, a, numSamples, stencilBits, twoSided)
    ELSE AlphaMaskPath(m, a, numSamples, stencilBits, twoSided)

\* the fast path without "elements.isEmpty() ||": an empty list is handed on
\* like a list without an antialiased element
FastPath_EmptyListHandedOn(m, a, numSamples, stencilBits, twoSided) ==
    IF FastPathEligible(a.elements)
    THEN LET installed ==
                 IF RequiresAA(a.elements)
                 THEN installClipEffects(Tried(m, "fast"), a.elements,
                                         a.devBounds # NULL, numSamples # 0)
                 ELSE Outcome(m, FALSE)
             scissorSpaceIBounds == ScissorSpaceIBounds(a)
             scissored ==
                 IF a.devBounds = NULL
                    \/ ~RectContains(scissorSpaceIBounds, Deref(a.devBounds))
                 THEN ScissorSet(installed.m, scissorSpaceIBounds)
                 ELSE installed.m
         IN  IF installed.ret
             THEN Returns(setDrawStateStencil(scissored, stencilBits, twoSided), TRUE)
             ELSE AlphaMaskPath(installed.m, a, numSamples, stencilBits, twoSided)
    ELSE AlphaMaskPath(m, a, numSamples, stencilBits, twoSided)

\* lines 463-478: the coverage processors of at most 4 elements
FastPath(m, a, numSamples, stencilBits, twoSided) ==
    IF FastPathEligible(a.elements)
    THEN LET installed ==
                 IF Len(a.elements) = 0 THEN Outcome(Tried(m, "fast"), TRUE)
                 ELSE IF RequiresAA(a.elements)
                      THEN installClipEffects(Tried(m, "fast"), a.elements,
                                              a.devBounds # NULL, numSamples # 0)
                      ELSE Outcome(m, FALSE)
             scissorSpaceIBounds == ScissorSpaceIBounds(a)
             scissored ==
                 IF a.devBounds = NULL
                    \/ ~RectContains(scissorSpaceIBounds, Deref(a.devBounds))
                 THEN ScissorSet(installed.m, scissorSpaceIBounds)
                 ELSE installed.m
         IN  IF installed.ret
             THEN Returns(setDrawStateStencil(scissored, stencilBits, twoSided), TRUE)
             ELSE AlphaMaskPath(installed.m, a, numSamples, stencilBits, twoSided)
    ELSE AlphaMaskPath(m, a, numSamples, stencilBits, twoSided)

\* every way a call of setupClipping can end: the state it leaves and the
\* value it returns
setupClipping(m0, a, numSamples, stencilBits, twoSided) ==
    LET entered == ResetClipMaskState(m0)
        skipped == IgnoreClip(entered.ds, a)
        clipSpaceRTIBounds == ClipSpaceRTIBounds(a.origin)
        reduced == IF skipped THEN entered ELSE Ev(entered, "ReduceClipStack")
        empty == Len(a.elements) = 0
        ignoreClip ==
            \/ skipped
            \/ /\ empty
               /\ a.initialState = "kAllIn_InitialState"
               /\ a.bounds = clipSpaceRTIBounds
    IN  IF ~skipped /\ NothingToDraw(a)
        THEN {Outcome(reduced, FALSE)}
        ELSE IF ignoreClip
             THEN Returns(setDrawStateStencil(reduced, stencilBits, twoSided), TRUE)
             ELSE FastPath(reduced, a, numSamples, stencilBits, twoSided)

(***************************************************************************)
(* The draws: what a caller hands to setupClipping.                        *)
(***************************************************************************)
InitialStates == {"kAllIn_InitialState", "kAllOut_InitialState"}

\* the generation id of the clip of a single call: the newest one handed out
\* (a manager that has set up no clip yet holds no id to compare it with)
GenIDs == {MaxGenID}

Origins == {MakePoint(x, 0) : x \in {0, MaxOrigin}}

\* the reduced bounds: the whole render target, or the part right of its
\* first column (both in clip space)
ReducedBounds(origin) ==
    LET rtb == Offset(MakeWH(RTWidth, RTHeight), origin)
    IN  {rtb, [rtb EXCEPT !.fLeft = @ + 1]}

\* no draw bounds, or the first column of the render target
DevBounds == {NULL, Ref(MakeWH(1, RTHeight))}

\* the draw's own stencil settings: none, or a two-sided test that is
\* clip-relative on the front face
UserStencil ==
    [front |-> StencilFace("kReplace_StencilOp", "kKeep_StencilOp",
                           "kEqualIfInClip_StencilFunc",
                           Pow2(16) - 1, Pow2(16) - 1, Pow2(16) - 1),
     back |-> StencilFace("kKeep_StencilOp", "kZero_StencilOp",
                          "kNotEqual_StencilFunc",
                          Pow2(16) - 1, 1, Pow2(16) - 1)]

StencilChoices == {DisabledStencil, UserStencil}

\* the coverage processor the draw brings along
UserProcessor == Processor("user", "none", 0, NULL, MakeWH(0, 0))

ClipData(wideOpen, origin, elements, genID, initialState, bounds) ==
    [wideOpen |-> wideOpen, origin |-> origin, elements |-> elements,
     genID |-> genID, initialState |-> initialState, bounds |-> bounds]

Draw(isClipState, stencil, clip, devBounds) ==
    [isClipState |-> isClipState, stencil |-> stencil,
     wideOpen |-> clip.wideOpen, origin |-> clip.origin, elements |-> clip.elements,
     genID |-> clip.genID, initialState |-> clip.initialState, bounds |-> clip.bounds,
     devBounds |-> devBounds]

\* a clip stack nothing has been pushed on
WideOpenClips ==
    { ClipData(TRUE, origin, << >>, g, "kAllIn_InitialState",
               Offset(MakeWH(RTWidth, RTHeight), origin)) :
      origin \in Origins, g \in GenIDs }

\* what the reduction can yield: an empty list only with an initial state
\* that says it all, elements only within the bounds asked for
ReducedClips ==
    UNION { { ClipData(FALSE, origin, l, g, i, b) :
              l \in ElementLists, g \in GenIDs, i \in InitialStates,
              b \in ReducedBounds(origin) } :
            origin \in Origins }

\* with clipping disabled the clip stack is never looked at: the draws of
\* that kind carry an empty one
Draws ==
    { d \in { Draw(cs, st, c, db) :
              cs \in BOOLEAN, st \in StencilChoices,
              c \in WideOpenClips \cup ReducedClips, db \in DevBounds } :
      d.isClipState \/ d.elements = << >> }

(***************************************************************************)
(* State.                                                                  *)
(***************************************************************************)
VARIABLES
    pc,                 \* "idle", "called" (arguments bound), "returned"
    fCurrClipMaskType,
    fClipMode,
    fAACache,
    renderTarget,       \* numSamples, stencilBits (0: no stencil buffer)
    twoSidedStencilSupport,
    lastClip,           \* the clip key recorded by the stencil buffer
    clipDrawn,          \* elements rendered into the stencil clip bit
    drawState,
    are,
    ars,
    scissorState,
    args,               \* the arguments of the call
    entry,              \* the draw state and manager state the call started from
    ret,                \* the value returned
    trace,              \* what the call did
    prev,               \* the call before this one: its clip key, how it ended
    mask,               \* a mask construction followed pixel by pixel
    adjust,             \* stencil settings on their way through adjustStencilParams
    recorder,           \* an SkRecorder, its record and the objects it refers to
    filter              \* an SkPictureImageFilter on its way through a buffer

vars == <<pc, fCurrClipMaskType, fClipMode, fAACache, renderTarget,
          twoSidedStencilSupport, lastClip, clipDrawn, drawState, are, ars,
          scissorState, args, entry, ret, trace, prev, mask, adjust, recorder, filter>>

NoTrace == [tried |-> << >>, events |-> {}]

\* what is kept of a call that has returned, and the mask cache it started
\* from
CallRecord(a, t, r, c) ==
    [genID |-> a.genID, bounds |-> a.bounds, tried |-> t.tried, ret |-> r,
     entryCache |-> c]

NoScissor == [fEnabled |-> FALSE, fRect |-> MakeWH(0, 0)]

DrawStateOf(d) ==
    [isClipState |-> d.isClipState, stencil |-> d.stencil,
     coverage |-> <<UserProcessor>>, color |-> <<UserProcessor>>,
     srcBlend |-> "kOne_GrBlendCoeff", dstBlend |-> "kZero_GrBlendCoeff"]

NoDraw ==
    Draw(FALSE, DisabledStencil,
         ClipData(TRUE, MakePoint(0, 0), << >>, 1, "kAllIn_InitialState",
                  MakeWH(RTWidth, RTHeight)),
         NULL)

Bundle ==
    [type |-> fCurrClipMaskType, mode |-> fClipMode, cache |-> fAACache,
     lastClip |-> lastClip, clipDrawn |-> clipDrawn, ds |-> drawState,
     are |-> are, ars |-> ars, scissor |-> scissorState, trace |-> trace]

\* no mask is followed pixel by pixel
NoMaskWork ==
    [phase |-> "none", construction |-> "none", initialState |-> "kAllIn_InitialState",
     elements |-> << >>, built |-> FALSE, cleared |-> << >>, pixels |-> << >>]

\* no stencil settings are followed through adjustStencilParams
NoAdjust ==
    [phase |-> "none", settings |-> DisabledStencil,
     mode |-> "kIgnoreClip_StencilClipMode", stencilBitCnt |-> 1,
     clipBit |-> NULL, adjusted |-> DisabledStencil]

\* no recorder is followed
NoRecorder ==
    [phase |-> "none", saves |-> << >>, fSaveLayerCount |-> 0, record |-> << >>,
     destroyed |-> << >>, before |-> << >>, fRefCnt |-> << >>]

\* no filter is followed
NoFilter ==
    [phase |-> "none", original |-> NULL, isCrossProcess |-> FALSE,
     storesResolution |-> TRUE, data |-> << >>, created |-> NULL, isValid |-> TRUE]

\* a manager that has set up no clip yet
ManagerInit ==
    /\ pc = "idle"
    /\ fCurrClipMaskType = "kNone_ClipMaskType"
    /\ fClipMode = "kIgnoreClip_StencilClipMode"
    /\ fAACache = NULL
    /\ renderTarget \in [numSamples : {0, 4}, stencilBits : {0, StencilBits}]
    /\ twoSidedStencilSupport \in BOOLEAN
    /\ lastClip = InvalidClipKey
    /\ clipDrawn = {}
    /\ drawState = DrawStateOf(NoDraw)
    /\ are = NULL
    /\ ars = NULL
    /\ scissorState = NoScissor
    /\ args = NoDraw
    /\ ret = FALSE
    /\ trace = NoTrace
    /\ prev = CallRecord(NoDraw, NoTrace, FALSE, NULL)
    /\ entry = Bundle

Init ==
    /\ ManagerInit
    /\ mask = NoMaskWork
    /\ adjust = NoAdjust
    /\ recorder = NoRecorder
    /\ filter = NoFilter

\* the caller sets up a draw: the draw state, fresh restore guards, a fresh
\* scissor state, the clip data and the draw bounds
DrawSetup(d) ==
    /\ pc = "idle"
    /\ pc' = "called"
    /\ args' = d
    /\ drawState' = DrawStateOf(d)
    /\ are' = NULL
    /\ ars' = NULL
    /\ scissorState' = NoScissor
    /\ trace' = NoTrace
    /\ ret' = FALSE
    /\ entry' = [Bundle EXCEPT !.ds = DrawStateOf(d), !.are = NULL, !.ars = NULL,
                               !.scissor = NoScissor, !.trace = NoTrace]
    /\ UNCHANGED <<fCurrClipMaskType, fClipMode, fAACache, renderTarget,
                   twoSidedStencilSupport, lastClip, clipDrawn, prev, mask,
                   adjust, recorder, filter>>

\* GrClipMaskManager::setupClipping, from entry to return
SetupClipping ==
    /\ pc = "called"
    /\ \E o \in setupClipping(Bundle, args, renderTarget.numSamples,
                              renderTarget.stencilBits, twoSidedStencilSupport) :
        /\ fCurrClipMaskType' = o.m.type
        /\ fClipMode' = o.m.mode
        /\ fAACache' = o.m.cache
        /\ lastClip' = o.m.lastClip
        /\ clipDrawn' = o.m.clipDrawn
        /\ drawState' = o.m.ds
        /\ are' = o.m.are
        /\ ars' = o.m.ars
        /\ scissorState' = o.m.scissor
        /\ trace' = o.m.trace
        /\ ret' = o.ret
    /\ pc' = "returned"
    /\ UNCHANGED <<renderTarget, twoSidedStencilSupport, args, entry, prev, mask,
                   adjust, recorder, filter>>

Next ==
    \/ \E d \in Draws : DrawSetup(d)
    \/ SetupClipping

Spec == Init /\ [][Next]_vars

(***************************************************************************)
(* Draw after draw on one manager: the mask cache, the stencil buffer's    *)
(* recorded clip, the mask type and the clip mode outlive a call.          *)
(***************************************************************************)
\* the clip stack changes between draws: one generation id more than a
\* single draw sees
SeqGenIDs == 1..(MaxGenID + 1)

\* reduced lists that end in the fast path, the alpha mask and the stencil
SeqLists ==
    { <<PadElement>>,
      <<Element("kPath_Type", "kIntersect_Op", TRUE, FALSE, FALSE, FALSE)>>,
      <<Element("kPath_Type", "kXOR_Op", FALSE, FALSE, FALSE, FALSE)>> }

\* a list of a rect and a path that ends in the stencil, on a clip stack
\* whose origin has moved while its bounds in clip space stayed
MovedClips ==
    { ClipData(FALSE, MakePoint(MaxOrigin, 0),
               <<Element("kRect_Type", "kIntersect_Op", FALSE, FALSE, FALSE, FALSE),
                 Element("kPath_Type", "kXOR_Op", FALSE, FALSE, FALSE, FALSE)>>,
               1, "kAllOut_InitialState",
               [MakeWH(RTWidth, RTHeight) EXCEPT !.fLeft = MaxOrigin]) }

SeqDraws ==
    { Draw(TRUE, DisabledStencil, c, NULL) :
        c \in { ClipData(FALSE, MakePoint(0, 0), l, g, "kAllOut_InitialState", b) :
                  l \in SeqLists, g \in SeqGenIDs, b \in ReducedBounds(MakePoint(0, 0)) }
              \cup MovedClips
              \cup { ClipData(TRUE, MakePoint(0, 0), << >>, 1, "kAllIn_InitialState",
                             MakeWH(RTWidth, RTHeight)) } }

\* the caller is done with the draw: its restore guards go out of scope and
\* put back the processors and the stencil settings they saved
Return ==
    /\ pc = "returned"
    /\ pc' = "idle"
    /\ LET restored == AutoRestoreStencilSet(AutoRestoreEffectsSet(Bundle, FALSE))
       IN  drawState' = restored.ds
    /\ are' = NULL
    /\ ars' = NULL
    /\ prev' = CallRecord(args, trace, ret, entry.cache)
    /\ UNCHANGED <<fCurrClipMaskType, fClipMode, fAACache, renderTarget,
                   twoSidedStencilSupport, lastClip, clipDrawn, scissorState,
                   args, entry, ret, trace, mask, adjust, recorder, filter>>

NextSeq ==
    \/ \E d \in SeqDraws : DrawSetup(d)
    \/ SetupClipping
    \/ Return

SpecSeq == Init /\ [][NextSeq]_vars

(***************************************************************************)
(* A draw issued while a mask is built.  createAlphaClipMask and           *)
(* createStencilClipMask install the bounds of the mask as the clip of     *)
(* fClipTarget (AutoClipRestore) and draw through it: the draw comes back  *)
(* to setupClipping with a draw state of its own and that clip.            *)
(***************************************************************************)
\* the reduction of a clip stack that holds one device rect: no element,
\* all-in within the rect
NestedClipData(bounds) ==
    ClipData(FALSE, MakePoint(0, 0), << >>, MaxGenID, "kAllIn_InitialState", bounds)

\* the bounds of a mask: the whole target it is drawn into, or a part of it
NestedBounds == ReducedBounds(MakePoint(0, 0))

\* setupClipping entered from within a mask construction that has brought
\* the manager to m
NestedSetupClipping(m, bounds, stencil) ==
    LET d == Draw(TRUE, stencil, NestedClipData(bounds), NULL)
    IN  setupClipping([m EXCEPT !.ds = DrawStateOf(d), !.are = NULL, !.ars = NULL,
                                !.scissor = NoScissor, !.trace = NoTrace],
                      d, renderTarget.numSamples, renderTarget.stencilBits,
                      twoSidedStencilSupport)

(***************************************************************************)
(* The content of a mask, pixel by pixel.  A pixel of the alpha mask holds *)
(* a coverage of 0..kFullCoverage (binary coverage: one of the two ends),  *)
(* a pixel of the stencil clip holds its clip bit.  An element has the     *)
(* pixels inside its path; inverse filled, it covers all the others.       *)
(***************************************************************************)
MaskPixels == 0..(MaskPixelCount - 1)

\* paths: the spans of pixels that start at the left edge of the mask
MaskPaths == { 0..(k - 1) : k \in 1..MaskPixelCount }

MaskElement(type, op, inv, path) ==
    [type |-> type, op |-> op, isAA |-> FALSE, isInverseFilled |-> inv,
     hasProcessor |-> FALSE, containsDraw |-> FALSE, path |-> path]

\* rects are never inverse filled
MaskElements ==
    { MaskElement(k[1], op, k[2], path) :
        k \in {<<"kRect_Type", FALSE>>, <<"kPath_Type", FALSE>>, <<"kPath_Type", TRUE>>},
        op \in RegionOps, path \in MaskPaths }

\* the pixels the element covers
Region(e) == IF e.isInverseFilled THEN MaskPixels \ e.path ELSE e.path

\* Element::getBounds of an element that is not inverse filled
ElementBounds(e) ==
    { p \in MaskPixels : \E a \in e.path, b \in e.path : a <= p /\ p <= b }

Uniform(v) == [p \in MaskPixels |-> v]

\* setup_boolean_blendcoeffs with xor blended as union
setup_boolean_blendcoeffs_XorAsUnion(op) ==
    CASE op = "kReplace_Op" -> <<"kOne_GrBlendCoeff", "kZero_GrBlendCoeff">>
      [] op = "kIntersect_Op" -> <<"kDC_GrBlendCoeff", "kZero_GrBlendCoeff">>
      [] op = "kUnion_Op" -> <<"kOne_GrBlendCoeff", "kISC_GrBlendCoeff">>
      [] op = "kXOR_Op" -> <<"kOne_GrBlendCoeff", "kISC_GrBlendCoeff">>
      [] op = "kDifference_Op" -> <<"kZero_GrBlendCoeff", "kISC_GrBlendCoeff">>
      [] op = "kReverseDifference_Op" -> <<"kIDC_GrBlendCoeff", "kZero_GrBlendCoeff">>

\* setup_boolean_blendcoeffs: the (source, destination) blend coefficients
\* that make a draw perform the operator on the accumulator
setup_boolean_blendcoeffs(op) ==
    CASE op = "kReplace_Op" -> <<"kOne_GrBlendCoeff", "kZero_GrBlendCoeff">>
      [] op = "kIntersect_Op" -> <<"kDC_GrBlendCoeff", "kZero_GrBlendCoeff">>
      [] op = "kUnion_Op" -> <<"kOne_GrBlendCoeff", "kISC_GrBlendCoeff">>
      [] op = "kXOR_Op" -> <<"kIDC_GrBlendCoeff", "kISC_GrBlendCoeff">>
      [] op = "kDifference_Op" -> <<"kZero_GrBlendCoeff", "kISC_GrBlendCoeff">>
      [] op = "kReverseDifference_Op" -> <<"kIDC_GrBlendCoeff", "kZero_GrBlendCoeff">>

\* the value of a blend coefficient for a source and a destination coverage
CoeffValue(coeff, src, dst) ==
    CASE coeff = "kZero_GrBlendCoeff" -> 0
      [] coeff = "kOne_GrBlendCoeff" -> kFullCoverage
      [] coeff = "kDC_GrBlendCoeff" -> dst
      [] coeff = "kIDC_GrBlendCoeff" -> kFullCoverage - dst
      [] coeff = "kISC_GrBlendCoeff" -> kFullCoverage - src

\* the blend unit: source times its coefficient plus destination times its
\* coefficient, clamped to full coverage
Blend(coeffs, src, dst) ==
    LET sum == (src * CoeffValue(coeffs[1], src, dst)
                + dst * CoeffValue(coeffs[2], src, dst)) \div kFullCoverage
    IN  IF sum > kFullCoverage THEN kFullCoverage ELSE sum

\* the clear of the alpha mask with the initial states exchanged
AlphaClear_Swapped(initialState) ==
    Uniform(IF initialState = "kAllIn_InitialState" THEN 0 ELSE kFullCoverage)

\* lines 755-758: the alpha channel of 0xffffffff or of 0x00000000
AlphaClear(initialState) ==
    Uniform(IF initialState = "kAllIn_InitialState" THEN kFullCoverage ELSE 0)

\* "helper.clear(kAllIn_InitialState == initialState ? 0xFF : 0x00)"
SoftwareClear(initialState) ==
    Uniform(IF initialState = "kAllIn_InitialState" THEN kFullCoverage ELSE 0)

\* clearStencilClip(stencilSpaceIBounds, kAllIn_InitialState == initialState, rt)
StencilClipClear(initialState) == Uniform(initialState = "kAllIn_InitialState")

MaskOutcome(built, pixels) == [built |-> built, pixels |-> pixels]

\* the coverage the scratch texture holds within srcBound after its clear
\* and the draw of the path with the replace blend
TempMask(e, srcBound) ==
    LET invert == e.isInverseFilled
        cleared == IF invert THEN kFullCoverage ELSE 0
        alpha == IF invert THEN 0 ELSE kFullCoverage
    IN  [p \in srcBound |->
            IF p \in e.path
            THEN Blend(setup_boolean_blendcoeffs("kReplace_Op"), alpha, cleared)
            ELSE cleared]

\* GrTextureDomainEffect in decal mode: the texture within its domain,
\* nothing outside
TextureDomainSample(texture, domain, p) == IF p \in domain THEN texture[p] ELSE 0

\* mergeMask: a rect over the whole mask, its source the scratch texture
\* sampled in decal mode within srcBound, blended by the operator
mergeMask(acc, temp, op, srcBound) ==
    [p \in MaskPixels |->
        Blend(setup_boolean_blendcoeffs(op),
              TextureDomainSample(temp, srcBound, p), acc[p])]

\* lines 811-824 and 846-858: the path drawn into the accumulator with the
\* operator's blend while the stencil marks it, then a rect drawn where the
\* stencil stayed zero
StencilInElement(acc, e) ==
    LET invert == e.isInverseFilled
        inside == IF invert THEN 0 ELSE kFullCoverage
        outside == IF invert THEN kFullCoverage ELSE 0
    IN  [p \in MaskPixels |->
            Blend(setup_boolean_blendcoeffs(e.op),
                  IF p \in e.path THEN inside ELSE outside, acc[p])]

\* lines 859-868: the element drawn into the accumulator at full coverage
DirectDraw(acc, e) ==
    [p \in MaskPixels |->
        IF p \in e.path
        THEN Blend(setup_boolean_blendcoeffs(e.op), kFullCoverage, acc[p])
        ELSE acc[p]]

\* the element loop of createAlphaClipMask over the pixels, from element i
\* on; the path renderer chain and the texture allocator answer as they like
RECURSIVE AlphaMaskLoop(_, _, _)
AlphaMaskLoop(acc, elements, i) ==
    IF i > Len(elements) THEN {MaskOutcome(TRUE, acc)}
    ELSE LET e == elements[i]
         IN  IF TwoPhase(e)
             THEN UNION {
                    IF ~canStencilAndDrawElement(e, sc)
                    THEN LET srcBound == IF e.isInverseFilled THEN MaskPixels
                                         ELSE ElementBounds(e)
                         IN  {MaskOutcome(FALSE, acc)}
                             \cup UNION {
                                    IF ~drawElement(e, FALSE, found)
                                    THEN {MaskOutcome(FALSE, acc)}
                                    ELSE AlphaMaskLoop(
                                           mergeMask(acc, TempMask(e, srcBound), e.op,
                                                     srcBound),
                                           elements, i + 1)
                                    : found \in Lookups(e) }
                    ELSE AlphaMaskLoop(StencilInElement(acc, e), elements, i + 1)
                    : sc \in Lookups(e) }
             ELSE UNION {
                    IF drawElement(e, FALSE, found)
                    THEN AlphaMaskLoop(DirectDraw(acc, e), elements, i + 1)
                    ELSE AlphaMaskLoop(acc, elements, i + 1)
                    : found \in Lookups(e) }

\* GrSWMaskHelper::draw on a pixel inside the geometry drawn
SWDraw(op, alpha, dst) ==
    CASE op = "kReplace_Op" -> alpha
      [] op = "kUnion_Op" -> alpha + (dst * (kFullCoverage - alpha)) \div kFullCoverage
      [] op = "kXOR_Op" ->
           (alpha * (kFullCoverage - dst) + dst * (kFullCoverage - alpha))
               \div kFullCoverage
      [] op = "kDifference_Op" -> (dst * (kFullCoverage - alpha)) \div kFullCoverage

\* the composition with the bitmap not inverted for reverse difference
SoftwareElement_NoInvert(acc, e) ==
    IF e.op \in {"kIntersect_Op", "kReverseDifference_Op"}
    THEN [p \in MaskPixels |->
             IF p \in Region(e) THEN acc[p] ELSE SWDraw("kReplace_Op", 0, acc[p])]
    ELSE [p \in MaskPixels |->
             IF p \in Region(e) THEN SWDraw(e.op, kFullCoverage, acc[p]) ELSE acc[p]]

\* lines 1231-1261: one element composed into the bitmap of the helper
SoftwareElement(acc, e) ==
    IF e.op \in {"kIntersect_Op", "kReverseDifference_Op"}
    THEN LET inverted ==
                 IF e.op = "kReverseDifference_Op"
                 THEN [p \in MaskPixels |-> SWDraw("kXOR_Op", kFullCoverage, acc[p])]
                 ELSE acc
         IN  [p \in MaskPixels |->
                 IF p \in Region(e) THEN inverted[p]
                 ELSE SWDraw("kReplace_Op", 0, inverted[p])]
    ELSE [p \in MaskPixels |->
             IF p \in Region(e) THEN SWDraw(e.op, kFullCoverage, acc[p]) ELSE acc[p]]

RECURSIVE SoftwareMaskLoop(_, _, _)
SoftwareMaskLoop(acc, elements, i) ==
    IF i > Len(elements) THEN acc
    ELSE SoftwareMaskLoop(SoftwareElement(acc, elements[i]), elements, i + 1)

\* the set operation of a clip operator: the pixel was in the clip (a), the
\* pixel is in the element (b)
SetOp(op, a, b) ==
    CASE op = "kReplace_Op" -> b
      [] op = "kIntersect_Op" -> a /\ b
      [] op = "kUnion_Op" -> a \/ b
      [] op = "kXOR_Op" -> a # b
      [] op = "kDifference_Op" -> a /\ ~b
      [] op = "kReverseDifference_Op" -> b /\ ~a

\* lines 965-1025: the passes of GrStencilSettings::GetClipPasses leave in
\* the clip bit the operator applied to the clip and the element
StencilElement(clip, e) ==
    [p \in MaskPixels |-> SetOp(e.op, clip[p], p \in Region(e))]

RECURSIVE StencilClipLoop(_, _, _)
StencilClipLoop(clip, elements, i) ==
    IF i > Len(elements) THEN {MaskOutcome(TRUE, clip)}
    ELSE LET e == elements[i]
         IN  UNION {
               IF e.type # "kRect_Type" /\ ~found
               THEN {MaskOutcome(FALSE, clip)}
               ELSE StencilClipLoop(StencilElement(clip, e), elements, i + 1)
               : found \in Lookups(e) }

(***************************************************************************)
(* The three mask constructions applied to a reduced list.                 *)
(***************************************************************************)
MaskLists == SeqsUpTo(MaskElements, MaxMaskElements)

MaskInputs ==
    { [NoMaskWork EXCEPT !.phase = "input", !.initialState = i, !.elements = l] :
        i \in InitialStates, l \in { m \in MaskLists : WellFormedList(m) } }

InitMask ==
    /\ ManagerInit
    /\ renderTarget = [numSamples |-> 0, stencilBits |-> StencilBits]
    /\ twoSidedStencilSupport
    /\ mask \in MaskInputs
    /\ adjust = NoAdjust
    /\ recorder = NoRecorder
    /\ filter = NoFilter

Built(construction, cleared, o) ==
    [mask EXCEPT !.phase = "built", !.construction = construction,
                 !.cleared = cleared, !.built = o.built, !.pixels = o.pixels]

ManagerVars ==
    <<pc, fCurrClipMaskType, fClipMode, fAACache, renderTarget,
      twoSidedStencilSupport, lastClip, clipDrawn, drawState, are, ars,
      scissorState, args, entry, ret, trace, prev>>

\* createAlphaClipMask once the texture is there: the clear, then the loop
BuildAlphaMask ==
    /\ mask.phase = "input"
    /\ LET cleared == AlphaClear(mask.initialState)
       IN  \E o \in AlphaMaskLoop(cleared, mask.elements, 1) :
             mask' = Built("gpu", cleared, o)
    /\ UNCHANGED <<ManagerVars, adjust, recorder, filter>>

\* createSoftwareClipMask: the clear of the helper, then the loop
BuildSoftwareMask ==
    /\ mask.phase = "input"
    /\ LET cleared == SoftwareClear(mask.initialState)
       IN  mask' = Built("software", cleared,
                         MaskOutcome(TRUE, SoftwareMaskLoop(cleared, mask.elements, 1)))
    /\ UNCHANGED <<ManagerVars, adjust, recorder, filter>>

\* createStencilClipMask on a stencil buffer that must render the clip
BuildStencilClip ==
    /\ mask.phase = "input"
    /\ LET cleared == StencilClipClear(mask.initialState)
       IN  \E o \in StencilClipLoop(cleared, mask.elements, 1) :
             mask' = Built("stencil", cleared, o)
    /\ UNCHANGED <<ManagerVars, adjust, recorder, filter>>

NextMask ==
    \/ BuildAlphaMask
    \/ BuildSoftwareMask
    \/ BuildStencilClip

SpecMask == InitMask /\ [][NextMask]_vars

(***************************************************************************)
(* Stencil settings through adjustStencilParams: the settings of a draw,   *)
(* the clip mode and the width of the stencil buffer are the inputs; the   *)
(* stencil buffer's clip has been marked by createStencilClipMask with its *)
(* own clip bit before the draw's settings are adjusted.                   *)
(***************************************************************************)
\* the 16-bit words of a face: every pattern of the user bits of the widest
\* buffer, the clip bits, and the word with all bits set
StencilWords == (0..MaxStencilWord) \cup {Pow2(kMaxStencilBits) - 1}

StencilFuncs == BasicStencilFuncs \cup ClipStencilFuncs

AdjustFronts ==
    { StencilFace("kReplace_StencilOp", "kKeep_StencilOp", func, fm, fr, wm) :
        func \in StencilFuncs, fm \in StencilWords, fr \in StencilWords,
        wm \in {Pow2(kMaxStencilBits) - 1, Pow2(StencilBits - 1) + 1} }

\* the back face: that of the front, or a test of its own
AdjustBacks(front) ==
    { front,
      StencilFace("kKeep_StencilOp", "kZero_StencilOp", "kLEqualIfInClip_StencilFunc",
                  Pow2(kMaxStencilBits) - 1, 1, Pow2(kMaxStencilBits) - 1) }

AdjustInput(front, back, mode, stencilBitCnt) ==
    [NoAdjust EXCEPT !.phase = "input", !.settings = [front |-> front, back |-> back],
                     !.mode = mode, !.stencilBitCnt = stencilBitCnt]

\* the faces tried on the wider buffers: all bits set in the reference and
\* the masks
WideFronts ==
    { StencilFace("kReplace_StencilOp", "kKeep_StencilOp", func,
                  Pow2(kMaxStencilBits) - 1, Pow2(kMaxStencilBits) - 1,
                  Pow2(kMaxStencilBits) - 1) :
        func \in ClipStencilFuncs \cup {"kLess_StencilFunc"} }

\* every face on the buffers of up to StencilBits bits, the faces with all
\* bits set on the wider ones
InitStencil ==
    /\ ManagerInit
    /\ renderTarget = [numSamples |-> 0, stencilBits |-> StencilBits]
    /\ mask = NoMaskWork
    /\ \E m \in StencilClipModes :
         \/ \E f \in AdjustFronts, n \in 1..StencilBits :
              \E b \in AdjustBacks(f) : adjust = AdjustInput(f, b, m, n)
         \/ \E f \in WideFronts, n \in (StencilBits + 1)..kMaxStencilBits :
              adjust = AdjustInput(f, f, m, n)
    /\ recorder = NoRecorder
    /\ filter = NoFilter

\* createStencilClipMask, lines 908-910: the bit the clip is marked with
MarkStencilClip ==
    /\ adjust.phase = "input"
    /\ adjust' = [adjust EXCEPT !.phase = "marked",
                                !.clipBit = Ref(StencilBufferClipBit(adjust.stencilBitCnt))]
    /\ UNCHANGED <<ManagerVars, mask, recorder, filter>>

\* adjustStencilParams(&settings, mode, stencilBitCnt)
AdjustStencilParams ==
    /\ adjust.phase = "marked"
    /\ \E adjusted \in adjustStencilParams(adjust.settings, adjust.mode,
                                           adjust.stencilBitCnt, twoSidedStencilSupport) :
          adjust' = [adjust EXCEPT !.phase = "adjusted", !.adjusted = adjusted]
    /\ UNCHANGED <<ManagerVars, mask, recorder, filter>>

NextStencil ==
    \/ MarkStencilClip
    \/ AdjustStencilParams

SpecStencil == InitStencil /\ [][NextStencil]_vars

\* the stencil test of the hardware: the reference against the stored value,
\* both under the function mask
StencilTest(func, ref, funcMask, s) ==
    LET r == BitAnd(ref, funcMask)
        v == BitAnd(s, funcMask)
    IN  CASE func = "kAlways_StencilFunc" -> TRUE
          [] func = "kNever_StencilFunc" -> FALSE
          [] func = "kGreater_StencilFunc" -> r > v
          [] func = "kGEqual_StencilFunc" -> r >= v
          [] func = "kLess_StencilFunc" -> r < v
          [] func = "kLEqual_StencilFunc" -> r <= v
          [] func = "kEqual_StencilFunc" -> r = v
          [] func = "kNotEqual_StencilFunc" -> r # v

(***************************************************************************)
(* An SkRecorder as tests/RecorderTest.cpp drives it: the stack of saves   *)
(* with its count of layers, the recorded calls that hold a reference (and *)
(* those a destroyed record held), and the owner counts of the objects     *)
(* referred to, now and before the recording.                              *)
(***************************************************************************)
RefCounted == {"shader", "picture", "image"}

Recorded(type, ref) == [type |-> type, ref |-> ref]

\* the references the recorded calls hold on an object
RecordRefs(record, obj) ==
    Cardinality({ i \in 1..Len(record) : record[i].ref = obj })

\* SkRefCnt::unique
unique(r, obj) == r.fRefCnt[obj] = 1

\* SkCanvas::isDrawingToLayer
isDrawingToLayer(r) == r.fSaveLayerCount > 0

\* a recorded call takes a reference on its argument
Record(r, type, obj) ==
    [r EXCEPT !.record = Append(@, Recorded(type, obj)), !.fRefCnt[obj] = @ + 1]

\* recorder.save()
save(r) == [r EXCEPT !.saves = Append(@, FALSE)]

\* recorder.saveLayer(bounds, paint): paint is NULL or holds the shader
saveLayer(r, paint) ==
    LET layered == [r EXCEPT !.saves = Append(@, TRUE), !.fSaveLayerCount = @ + 1]
    IN  IF paint = NULL THEN layered ELSE Record(layered, "SaveLayer", Deref(paint))

\* restore with every save taken for a layer
restore_CountsEverySave(r) ==
    [r EXCEPT !.saves = SubSeq(@, 1, Len(@) - 1), !.fSaveLayerCount = @ - 1]

\* recorder.restore()
restore(r) ==
    [r EXCEPT !.saves = SubSeq(@, 1, Len(@) - 1),
              !.fSaveLayerCount = IF r.saves[Len(r.saves)] THEN @ - 1 ELSE @]

\* the end of the scope with the paint of a recorded saveLayer never
\* destroyed
DestroyRecorder_PaintLeaked(r) ==
    [r EXCEPT !.phase = "destroyed",
              !.fRefCnt = [obj \in RefCounted |->
                             IF obj = "shader" THEN r.fRefCnt[obj]
                             ELSE r.fRefCnt[obj] - RecordRefs(r.record, obj)],
              !.destroyed = r.record,
              !.record = << >>, !.saves = << >>, !.fSaveLayerCount = 0]

\* the end of the scope: recorder and record are destroyed, every recorded
\* call lets go of its argument
DestroyRecorder(r) ==
    [r EXCEPT !.phase = "destroyed",
              !.fRefCnt = [obj \in RefCounted |->
                             r.fRefCnt[obj] - RecordRefs(r.record, obj)],
              !.destroyed = r.record,
              !.record = << >>, !.saves = << >>, !.fSaveLayerCount = 0]

\* "SkRecord record; SkRecorder recorder(&record, 100, 100);" with the
\* objects owned by the test already
InitRecorder ==
    /\ ManagerInit
    /\ renderTarget = [numSamples |-> 0, stencilBits |-> StencilBits]
    /\ twoSidedStencilSupport
    /\ mask = NoMaskWork
    /\ adjust = NoAdjust
    /\ filter = NoFilter
    /\ \E n \in 1..MaxOwners :
         recorder = [NoRecorder EXCEPT !.phase = "recording",
                                       !.before = [obj \in RefCounted |-> n],
                                       !.fRefCnt = [obj \in RefCounted |-> n]]

Recording == recorder.phase = "recording"

CanSave == Recording /\ Len(recorder.saves) < MaxSaveDepth

CanRecord == Recording /\ Len(recorder.record) < MaxRecordedRefs

Save ==
    /\ CanSave
    /\ recorder' = save(recorder)
    /\ UNCHANGED <<ManagerVars, mask, adjust, filter>>

SaveLayer ==
    /\ CanSave
    /\ \E paint \in {NULL} \cup (IF CanRecord THEN {Ref("shader")} ELSE {}) :
         recorder' = saveLayer(recorder, paint)
    /\ UNCHANGED <<ManagerVars, mask, adjust, filter>>

\* restore never outnumbers the saves
Restore ==
    /\ Recording
    /\ Len(recorder.saves) > 0
    /\ recorder' = restore(recorder)
    /\ UNCHANGED <<ManagerVars, mask, adjust, filter>>

\* recorder.drawPicture(pic)
DrawPicture ==
    /\ CanRecord
    /\ recorder' = Record(recorder, "DrawPicture", "picture")
    /\ UNCHANGED <<ManagerVars, mask, adjust, filter>>

\* recorder.drawImage(image.get(), 0, 0)
DrawImage ==
    /\ CanRecord
    /\ recorder' = Record(recorder, "DrawImage", "image")
    /\ UNCHANGED <<ManagerVars, mask, adjust, filter>>

\* recorder.drawImageRect(image.get(), 0, SkRect::MakeWH(100, 100))
DrawImageRect ==
    /\ CanRecord
    /\ recorder' = Record(recorder, "DrawImageRect", "image")
    /\ UNCHANGED <<ManagerVars, mask, adjust, filter>>

\* the closing brace of the scope of record and recorder
Destroy ==
    /\ Recording
    /\ recorder' = DestroyRecorder(recorder)
    /\ UNCHANGED <<ManagerVars, mask, adjust, filter>>

NextRecorder ==
    \/ Save
    \/ SaveLayer
    \/ Restore
    \/ DrawPicture
    \/ DrawImage
    \/ DrawImageRect
    \/ Destroy

SpecRecorder == InitRecorder /\ [][NextRecorder]_vars

(***************************************************************************)
(* Properties of a returned call.                                          *)
(***************************************************************************)
Returned == pc = "returned"

\* the clip stack was reduced: clipping enabled, stack not wide open
Reduced == args.isClipState /\ ~args.wideOpen

Count == Len(args.elements)

ClipEffects == {"GrConvexPolyEffect", "GrRRectEffect"}

EntryCoverageCount == Len(entry.ds.coverage)

KeepsEntryCoverage ==
    /\ Len(drawState.coverage) >= EntryCoverageCount
    /\ SubSeq(drawState.coverage, 1, EntryCoverageCount) = entry.ds.coverage

AddedCoverage ==
    SubSeq(drawState.coverage, EntryCoverageCount + 1, Len(drawState.coverage))

HasMaskProcessor ==
    \E i \in 1..Len(drawState.coverage) :
        drawState.coverage[i].effect = "GrTextureDomainEffect"

HasClipEffect ==
    \E i \in 1..Len(drawState.coverage) : drawState.coverage[i].effect \in ClipEffects

NoMaskBuilt ==
    /\ fAACache = entry.cache
    /\ lastClip = entry.lastClip
    /\ clipDrawn = entry.clipDrawn
    /\ fCurrClipMaskType = "kNone_ClipMaskType"
    /\ ~HasMaskProcessor

ShiftedBounds == Offset(args.bounds, MakePoint(0 - args.origin.fX, 0 - args.origin.fY))

\* a replace or intersect element that contains the draw bounds gets no
\* processor
SkippedElement(e) ==
    /\ args.devBounds # NULL
    /\ e.containsDraw
    /\ e.op \in {"kReplace_Op", "kIntersect_Op"}

\* a coverage processor can stand for the element on this render target
Expressible(e) == e.hasProcessor /\ ~(e.isAA /\ renderTarget.numSamples # 0)

OneProcessorPerElement ==
    /\ Len(AddedCoverage) =
           Cardinality({i \in 1..Count : ~SkippedElement(args.elements[i])})
    /\ \A k \in 1..Len(AddedCoverage) :
           /\ AddedCoverage[k].effect \in ClipEffects
           /\ AddedCoverage[k].element \in 1..Count
           /\ ~SkippedElement(args.elements[AddedCoverage[k].element])

\* C1: when the stencil fallback finds no path renderer for a non-rect
\* element, setupClipping returns failure
C1_StencilFailureReturned ==
    (Returned /\ "no stencil path renderer" \in trace.events) => ret = FALSE

\* C2: a reduction to zero elements with initial state AllOut makes
\* setupClipping return failure, with no scissor set, no coverage processor
\* added and no mask built
C2_EmptyAllOutFails ==
    (Returned /\ Reduced /\ Count = 0 /\ args.initialState = "kAllOut_InitialState")
    => /\ ret = FALSE
       /\ scissorState = NoScissor
       /\ drawState.coverage = entry.ds.coverage
       /\ NoMaskBuilt
       /\ trace.tried = << >>

C2_Witness ==
    /\ Returned /\ Reduced /\ Count = 0
    /\ args.initialState = "kAllOut_InitialState"
    /\ ret = FALSE

AllocationFailed ==
    \/ "allocMaskTexture failed" \in trace.events
    \/ "createTempMask failed" \in trace.events

\* C3 as stated: when the allocation of the mask texture or of the scratch
\* texture fails, setupClipping returns failure
C3_AllocationFailureReturned == (Returned /\ AllocationFailed) => ret = FALSE

\* C3 as amended: when the allocation of the mask texture or of the scratch
\* texture fails, the alpha mask construction is aborted (no mask is cached
\* or installed) and setupClipping goes on to the stencil fallback and
\* returns success
C3_AllocationFailureFallsToStencil ==
    (Returned /\ AllocationFailed)
    => /\ fAACache = NULL
       /\ ~HasMaskProcessor
       /\ fCurrClipMaskType # "kAlpha_ClipMaskType"
       /\ trace.tried[Len(trace.tried)] = "stencil"
       /\ "alpha" \in {trace.tried[i] : i \in 1..Len(trace.tried)}
       /\ ret = TRUE

C3_Witness ==
    /\ Returned
    /\ "createTempMask failed" \in trace.events
    /\ ret = TRUE

DrawElementFailed ==
    \/ "drawElement failed" \in trace.events
    \/ "drawElement failed, ignored" \in trace.events

\* C4: when drawElement fails for an element during the alpha mask
\* construction, in either branch, no mask is cached and none is returned
\* (installed on the draw)
C4_FailedDrawLeavesNoMask ==
    (Returned /\ DrawElementFailed) => (fAACache = NULL /\ ~HasMaskProcessor)

OwnStencilResolved ==
    IF IsDisabled(entry.ds.stencil) THEN {entry.ds.stencil}
    ELSE adjustStencilParams(entry.ds.stencil, ResetClipMaskState(entry).mode,
                             renderTarget.stencilBits, twoSidedStencilSupport)

\* C5: with clipping disabled or a wide-open clip stack setupClipping does
\* not reduce the stack, sets no scissor, adds no processor, leaves the mask
\* cache and the stencil buffer's clip alone, resolves the draw's own
\* stencil settings and returns success
C5_IgnoredClipOnlyResolvesStencil ==
    (Returned /\ (~args.isClipState \/ args.wideOpen))
    => /\ ret = TRUE
       /\ "ReduceClipStack" \notin trace.events
       /\ trace.tried = << >>
       /\ scissorState = NoScissor
       /\ drawState.coverage = entry.ds.coverage
       /\ drawState.color = entry.ds.color
       /\ NoMaskBuilt
       /\ drawState.stencil \in OwnStencilResolved

C5_Witness ==
    /\ Returned /\ args.isClipState /\ args.wideOpen
    /\ ~IsDisabled(entry.ds.stencil)
    /\ drawState.stencil # entry.ds.stencil
    /\ ret = TRUE

\* the clip-disabled call from the same entry state
ClipDisabledOutcomes ==
    setupClipping([entry EXCEPT !.ds.isClipState = FALSE], args,
                  renderTarget.numSamples, renderTarget.stencilBits,
                  twoSidedStencilSupport)

C6_Case ==
    /\ Returned /\ Reduced /\ Count = 0
    /\ args.initialState = "kAllIn_InitialState"
    /\ args.bounds = Offset(MakeWH(RTWidth, RTHeight), args.origin)

\* C6: a reduction to zero elements, AllIn, with the bounds of the render
\* target behaves as no clip at all: success, no scissor, no processor, no
\* mask, and the draw state and manager state of the clip-disabled call
C6_FullBoundsClipIsNoClip ==
    C6_Case
    => /\ ret = TRUE
       /\ scissorState = NoScissor
       /\ drawState.coverage = entry.ds.coverage
       /\ NoMaskBuilt
       /\ \E o \in ClipDisabledOutcomes :
            /\ o.ret = ret
            /\ o.m.type = fCurrClipMaskType
            /\ o.m.mode = fClipMode
            /\ o.m.cache = fAACache
            /\ o.m.lastClip = lastClip
            /\ o.m.scissor = scissorState
            /\ o.m.ds.stencil = drawState.stencil
            /\ o.m.ds.coverage = drawState.coverage
            /\ o.m.ds.color = drawState.color
            /\ o.m.are = are
            /\ o.m.ars = ars

C6_Witness == C6_Case /\ args.origin.fX # 0 /\ args.devBounds = NULL /\ ret = TRUE

AllExpressible == \A i \in 1..Count : Expressible(args.elements[i])

\* C7 as stated: a reduced list of at most 4 elements, each expressible as
\* a coverage processor, is clipped by installed processors: success, no
\* alpha mask, no stencil mask
C7_ExpressibleListTakesFastPath ==
    (Returned /\ Reduced /\ Count \in 1..kFastPathMaxElements /\ AllExpressible)
    => (ret = TRUE /\ trace.tried = <<"fast">> /\ NoMaskBuilt)

\* C7 as amended: a reduced list of at most 4 elements, one of them
\* antialiased, each with operator replace, intersect or difference and
\* expressible as a coverage processor, is clipped by installed processors
\* (one per element that is not skipped): success, no alpha mask, no stencil
\* mask; a list without an antialiased element is not tried on the fast path
C7_AAListTakesFastPath ==
    (Returned /\ Reduced /\ Count \in 1..kFastPathMaxElements)
    => /\ ( /\ RequiresAA(args.elements)
            /\ AllExpressible
            /\ \A i \in 1..Count :
                 args.elements[i].op \in {"kReplace_Op", "kIntersect_Op", "kDifference_Op"} )
          => /\ ret = TRUE
             /\ trace.tried = <<"fast">>
             /\ NoMaskBuilt
             /\ KeepsEntryCoverage
             /\ OneProcessorPerElement
       /\ ~RequiresAA(args.elements) => trace.tried = <<"stencil">>

C7_Witness ==
    /\ Returned /\ Reduced /\ Count = kFastPathMaxElements
    /\ \E i \in 1..Count : args.elements[i].op = "kDifference_Op"
    /\ trace.tried = <<"fast">>
    /\ Len(AddedCoverage) = Count
    /\ ret = TRUE

InstallTried == Count > 0 /\ Len(trace.tried) > 0 /\ trace.tried[1] = "fast"

\* C8: installClipEffects is all or nothing: after a failure the coverage
\* processors are those of the entry (none of its own is left, the guard is
\* disarmed), after a success all of its processors are installed
C8_InstallIsAllOrNothing ==
    (Returned /\ InstallTried)
    => IF Len(trace.tried) > 1
       THEN /\ KeepsEntryCoverage
            /\ ~HasClipEffect
            /\ Len(AddedCoverage) = (IF HasMaskProcessor THEN 1 ELSE 0)
            /\ drawState.color = entry.ds.color
            /\ are = NULL
       ELSE /\ ret = TRUE
            /\ KeepsEntryCoverage
            /\ OneProcessorPerElement
            /\ are = Ref([fColorEffectCnt |-> Len(entry.ds.color),
                          fCoverageEffectCnt |-> EntryCoverageCount])

\* a failure at the last element, after processors were added for the others
C8_Witness ==
    /\ Returned /\ InstallTried /\ Len(trace.tried) > 1
    /\ Count = kFastPathMaxElements
    /\ args.elements[1] = PadElement
    /\ renderTarget.numSamples = 0
    /\ args.devBounds = NULL

\* C9: after a success of the fast path the scissor is the reduced bounds
\* shifted by minus the origin exactly when there are no draw bounds or the
\* shifted bounds do not contain them, and unset otherwise; no mask texture
\* is made
C9_FastPathScissor ==
    (Returned /\ ret = TRUE /\ trace.tried = <<"fast">>)
    => /\ scissorState =
            IF args.devBounds = NULL \/ ~RectContains(ShiftedBounds, args.devBounds[1])
            THEN [fEnabled |-> TRUE, fRect |-> ShiftedBounds]
            ELSE NoScissor
       /\ fAACache = entry.cache
       /\ ~HasMaskProcessor

C9_Witness ==
    /\ Returned /\ ret = TRUE /\ trace.tried = <<"fast">>
    /\ Count = 0
    /\ args.origin.fX # 0
    /\ args.devBounds # NULL
    /\ scissorState.fEnabled

OrderedAttempts ==
    { << >>, <<"fast">>, <<"alpha">>, <<"stencil">>, <<"fast", "alpha">>,
      <<"fast", "stencil">>, <<"alpha", "stencil">>, <<"fast", "alpha", "stencil">> }

\* the element makes the fast path fail: an operator or a shape without a
\* coverage processor, or coverage AA on a multisampled target
Incapable(e) ==
    \/ e.op \in {"kUnion_Op", "kXOR_Op", "kReverseDifference_Op"}
    \/ ~SkippedElement(e) /\ ~Expressible(e)

FastPathIncapable ==
    /\ Reduced /\ Count \in 1..kFastPathMaxElements
    /\ RequiresAA(args.elements)
    /\ \E i \in 1..Count : Incapable(args.elements[i])

\* C10: the representations are tried in the order fast path, alpha mask,
\* stencil, each at most once; a fast path that fails for want of capability
\* is followed by the next representation and the call does not fail
C10_OrderedFallback ==
    Returned
    => /\ trace.tried \in OrderedAttempts
       /\ FastPathIncapable
          => /\ ret = TRUE
             /\ Len(trace.tried) >= 2
             /\ trace.tried[1] = "fast"
             /\ trace.tried[2] = (IF renderTarget.numSamples = 0 THEN "alpha"
                                  ELSE "stencil")

C10_Witness ==
    /\ Returned /\ FastPathIncapable
    /\ trace.tried = <<"fast", "alpha", "stencil">>
    /\ ret = TRUE


NotMultisampled == renderTarget.numSamples = 0

LastTried == IF trace.tried = << >> THEN "none" ELSE trace.tried[Len(trace.tried)]

AlphaTried == \E i \in 1..Len(trace.tried) : trace.tried[i] = "alpha"

\* C11: the alpha mask (GPU or software) is attempted only on a target that
\* is not multisampled and for a reduction that requires AA; otherwise a
\* call that does not end in the fast path goes straight to the stencil path
\* and the mask type on return is not alpha
C11_AlphaOnlyForAAWithoutMSAA ==
    Returned
    => /\ AlphaTried => (NotMultisampled /\ RequiresAA(args.elements))
       /\ ~(NotMultisampled /\ RequiresAA(args.elements))
          => /\ fCurrClipMaskType # "kAlpha_ClipMaskType"
             /\ ~HasMaskProcessor
             /\ "createAlphaClipMask" \notin trace.events
             /\ "createSoftwareClipMask" \notin trace.events
             /\ trace.tried \in {<< >>, <<"fast">>, <<"stencil">>, <<"fast", "stencil">>}
             /\ (trace.tried # << >> /\ ~(ret /\ LastTried = "fast"))
                => LastTried = "stencil"

\* an antialiased list on a multisampled target that left the fast path
C11_Witness ==
    /\ Returned /\ Reduced
    /\ renderTarget.numSamples # 0
    /\ RequiresAA(args.elements)
    /\ trace.tried = <<"fast", "stencil">>
    /\ fCurrClipMaskType = "kStencil_ClipMaskType"

MaskConstructionFailed == AllocationFailed \/ "drawElement failed" \in trace.events

C12_Case ==
    /\ Returned /\ Reduced
    /\ Count > kFastPathMaxElements
    /\ RequiresAA(args.elements)
    /\ NotMultisampled

\* C12: more than 4 elements, AA required, target not multisampled: the call
\* ends in the alpha mask (GPU or software); it goes on to the stencil path
\* only when the construction of the alpha mask failed
C12_ManyAAElementsUseAlphaMask ==
    C12_Case
    => /\ trace.tried \in {<<"alpha">>, <<"alpha", "stencil">>}
       /\ \/ "createAlphaClipMask" \in trace.events
          \/ "createSoftwareClipMask" \in trace.events
       /\ trace.tried = <<"alpha">>
          => /\ ret = TRUE
             /\ HasMaskProcessor
             /\ fAACache # NULL
             /\ ~MaskConstructionFailed
       /\ trace.tried = <<"alpha", "stencil">>
          => /\ MaskConstructionFailed
             /\ ~HasMaskProcessor

C12_Witness ==
    /\ C12_Case
    /\ trace.tried = <<"alpha">>
    /\ "createSoftwareClipMask" \in trace.events
    /\ HasMaskProcessor

StencilMaskConstructed ==
    /\ LastTried = "stencil"
    /\ "no stencil buffer" \notin trace.events
    /\ "no stencil path renderer" \notin trace.events

\* the settings setDrawStateStencil starts from when clips are respected
RespectedStencilSource ==
    IF IsDisabled(entry.ds.stencil) THEN basic_apply_stencil_clip_settings
    ELSE entry.ds.stencil

\* C13: a return through the stencil fallback with the stencil mask built
\* leaves the scissor at the reduced bounds shifted by minus the origin, the
\* mask type stencil, the clip mode respect-clip and the draw's stencil
\* settings resolved under respect-clip
C13_StencilFallbackRespectsClip ==
    (Returned /\ StencilMaskConstructed)
    => /\ ret = TRUE
       /\ scissorState = [fEnabled |-> TRUE, fRect |-> ShiftedBounds]
       /\ fCurrClipMaskType = "kStencil_ClipMaskType"
       /\ fClipMode = "kRespectClip_StencilClipMode"
       /\ drawState.stencil \in
              adjustStencilParams(RespectedStencilSource, "kRespectClip_StencilClipMode",
                                  renderTarget.stencilBits, twoSidedStencilSupport)
       /\ lastClip = ClipKey(args.genID, args.bounds,
                             MakePoint(0 - args.origin.fX, 0 - args.origin.fY))

C13_Witness ==
    /\ Returned /\ StencilMaskConstructed
    /\ args.origin.fX # 0
    /\ Count > 0
    /\ clipDrawn = 1..Count
    /\ ~IsDisabled(entry.ds.stencil)
    /\ fClipMode = "kRespectClip_StencilClipMode"


(***************************************************************************)
(* Properties of a call that follows other calls.                          *)
(***************************************************************************)
PrevAlphaSucceeded ==
    /\ prev.ret = TRUE
    /\ prev.tried # << >>
    /\ prev.tried[Len(prev.tried)] = "alpha"

\* what the construction of a mask leaves in the trace
MaskBuildEvents ==
    {"clear mask", "direct draw", "mergeMask", "stencil in element",
     "software mask drawn", "allocMaskTexture failed", "createTempMask failed",
     "drawElement failed", "drawElement failed, ignored"}

MaskProcessorTextures ==
    { drawState.coverage[i].texture :
        i \in { k \in 1..Len(drawState.coverage) :
                  drawState.coverage[k].effect = "GrTextureDomainEffect" } }

C14_Case ==
    /\ Returned /\ AlphaTried
    /\ PrevAlphaSucceeded
    /\ prev.genID = args.genID
    /\ prev.bounds = args.bounds

\* C14: a call on the alpha mask path that follows a successful call on the
\* alpha mask path with the same generation id and bounds uses the cached
\* texture: nothing is cleared, drawn or allocated
C14_UnchangedClipHitsCache ==
    C14_Case
    => /\ "cache hit" \in trace.events
       /\ trace.events \cap MaskBuildEvents = {}
       /\ fAACache = entry.cache
       /\ MaskProcessorTextures = {getLastMask(entry.cache)}
       /\ getLastMask(entry.cache) # NULL
       /\ LastTried = "alpha"
       /\ ret = TRUE

C14_Witness ==
    /\ C14_Case
    /\ "createSoftwareClipMask" \in trace.events
    /\ "cache hit" \in trace.events

EntryCacheKeyed ==
    /\ entry.cache # NULL
    /\ entry.cache[1].fLastClipGenID = args.genID
    /\ entry.cache[1].fLastBound = args.bounds

\* C15: the mask cache holds at most one entry; a lookup gives a texture
\* only for the generation id and the bounds of the entry; on a mismatch the
\* mask is rebuilt, the old entry is gone before the new texture is there,
\* and the cache ends keyed by the new generation id and bounds
C15_CacheKeyedByGenIDAndBounds ==
    /\ Len(fAACache) <= 1
    /\ (Returned /\ AlphaTried)
       => /\ "cache hit" \in trace.events
             => (EntryCacheKeyed /\ getLastMask(entry.cache) # NULL)
          /\ ~EntryCacheKeyed
             => /\ "cache hit" \notin trace.events
                /\ trace.events \cap MaskBuildEvents # {}
                /\ "allocMaskTexture failed" \in trace.events => fAACache = NULL
                /\ LastTried = "alpha"
                   => /\ fAACache # NULL
                      /\ fAACache[1].fLastClipGenID = args.genID
                      /\ fAACache[1].fLastBound = args.bounds
                      /\ fAACache[1].fLastMask # NULL
                      /\ MaskProcessorTextures = {fAACache[1].fLastMask}
                /\ LastTried = "stencil" => fAACache = NULL

\* a mask is cached at entry under another generation id; the call rebuilds
C15_Witness ==
    /\ Returned /\ AlphaTried
    /\ entry.cache # NULL
    /\ entry.cache[1].fLastClipGenID # args.genID
    /\ entry.cache[1].fLastBound = args.bounds
    /\ LastTried = "alpha"
    /\ fAACache[1].fLastClipGenID = args.genID

\* the same call from the same entry state, but with mask type none and clip
\* mode ignore-clip
FreshManagerOutcomes ==
    setupClipping([entry EXCEPT !.type = "kNone_ClipMaskType",
                                !.mode = "kIgnoreClip_StencilClipMode"],
                  args, renderTarget.numSamples, renderTarget.stencilBits,
                  twoSidedStencilSupport)

\* C16: every call starts by resetting the mask type to none and a clip mode
\* of respect-clip to ignore-clip (modify-clip and ignore-clip stay); the
\* mask type and the clip mode on return do not depend on those the call
\* before left
C16_MaskStateResetAtEntry ==
    /\ \A mode \in StencilClipModes :
         LET entered == ResetClipMaskState([Bundle EXCEPT !.mode = mode])
         IN  /\ entered.type = "kNone_ClipMaskType"
             /\ entered.mode = IF mode = "kRespectClip_StencilClipMode"
                               THEN "kIgnoreClip_StencilClipMode" ELSE mode
    /\ Returned
       => /\ LastTried \in {"none", "fast"}
             => /\ fCurrClipMaskType = "kNone_ClipMaskType"
                /\ fClipMode = "kIgnoreClip_StencilClipMode"
          /\ \E o \in FreshManagerOutcomes :
               /\ o.m.type = fCurrClipMaskType
               /\ o.m.mode = fClipMode
               /\ o.m.ds = drawState
               /\ o.ret = ret

\* a call that ignores the clip after a call that built the stencil clip
C16_Witness ==
    /\ Returned
    /\ entry.type = "kStencil_ClipMaskType"
    /\ entry.mode = "kRespectClip_StencilClipMode"
    /\ LastTried = "none"
    /\ fCurrClipMaskType = "kNone_ClipMaskType"
    /\ fClipMode = "kIgnoreClip_StencilClipMode"


IsPrefix(p, q) == Len(p) <= Len(q) /\ SubSeq(q, 1, Len(p)) = p

MaskBuilt == mask.phase = "built" /\ mask.built

\* binary coverage: in the clip or not
Coverage(inClip) == IF inClip THEN kFullCoverage ELSE 0

\* the set operation of each operator on a pixel inside the shape
InsideShape(op, inClip) ==
    CASE op = "kReplace_Op" -> TRUE
      [] op = "kIntersect_Op" -> inClip
      [] op = "kUnion_Op" -> TRUE
      [] op = "kXOR_Op" -> ~inClip
      [] op = "kDifference_Op" -> FALSE
      [] op = "kReverseDifference_Op" -> ~inClip

C18_Case ==
    /\ MaskBuilt
    /\ mask.construction = "gpu"
    /\ Len(mask.elements) = 1
    /\ mask.elements[1].type = "kRect_Type"

\* C18: setup_boolean_blendcoeffs gives replace (one, zero), intersect
\* (dst, zero), union (one, inverse src), xor (inverse dst, inverse src),
\* difference (zero, inverse src), reverse difference (inverse dst, zero);
\* with binary coverage a fully covered source pixel blended so with the
\* accumulator gives the set operation inside the shape
C18_BlendCoefficientsPerformSetOps ==
    /\ setup_boolean_blendcoeffs("kReplace_Op")
           = <<"kOne_GrBlendCoeff", "kZero_GrBlendCoeff">>
    /\ setup_boolean_blendcoeffs("kIntersect_Op")
           = <<"kDC_GrBlendCoeff", "kZero_GrBlendCoeff">>
    /\ setup_boolean_blendcoeffs("kUnion_Op")
           = <<"kOne_GrBlendCoeff", "kISC_GrBlendCoeff">>
    /\ setup_boolean_blendcoeffs("kXOR_Op")
           = <<"kIDC_GrBlendCoeff", "kISC_GrBlendCoeff">>
    /\ setup_boolean_blendcoeffs("kDifference_Op")
           = <<"kZero_GrBlendCoeff", "kISC_GrBlendCoeff">>
    /\ setup_boolean_blendcoeffs("kReverseDifference_Op")
           = <<"kIDC_GrBlendCoeff", "kZero_GrBlendCoeff">>
    /\ \A op \in RegionOps : \A inClip \in BOOLEAN :
         Blend(setup_boolean_blendcoeffs(op), kFullCoverage, Coverage(inClip))
             = Coverage(InsideShape(op, inClip))
    /\ C18_Case
       => \A p \in mask.elements[1].path :
            mask.pixels[p] = Coverage(InsideShape(mask.elements[1].op,
                                                  mask.cleared[p] = kFullCoverage))

\* a rect composed by xor into a mask that starts all in
C18_Witness ==
    /\ C18_Case
    /\ mask.elements[1].op = "kXOR_Op"
    /\ mask.initialState = "kAllIn_InitialState"
    /\ mask.elements[1].path # MaskPixels
    /\ \A p \in MaskPixels : mask.pixels[p] = Coverage(p \notin mask.elements[1].path)

\* C19: each of the three constructions starts its accumulator, over the
\* whole mask, all inside for AllIn and all outside for AllOut: full or zero
\* coverage in the alpha mask and in the software mask, the clip bit set or
\* cleared in the stencil
C19_AccumulatorStartsAtInitialState ==
    mask.phase = "built"
    => LET allIn == mask.initialState = "kAllIn_InitialState"
       IN  /\ DOMAIN mask.cleared = MaskPixels
           /\ mask.construction \in {"gpu", "software"}
              => \A p \in MaskPixels :
                   mask.cleared[p] = (IF allIn THEN kFullCoverage ELSE 0)
           /\ mask.construction = "stencil"
              => \A p \in MaskPixels : mask.cleared[p] = allIn
           /\ mask.elements = << >> => (mask.built /\ mask.pixels = mask.cleared)

C19_Witness ==
    /\ MaskBuilt
    /\ mask.construction = "gpu"
    /\ mask.initialState = "kAllIn_InitialState"
    /\ mask.elements # << >>
    /\ \A p \in MaskPixels : mask.cleared[p] = kFullCoverage

C20_Case ==
    /\ MaskBuilt
    /\ mask.construction \in {"gpu", "software"}
    /\ mask.initialState = "kAllIn_InitialState"
    /\ Len(mask.elements) = 2
    /\ mask.elements[1].op = "kIntersect_Op"
    /\ mask.elements[2] = [mask.elements[1] EXCEPT !.op = "kReverseDifference_Op"]

\* C20: from AllIn, a shape intersected and then reverse-differenced leaves
\* an empty mask, zero coverage at every pixel, in the alpha mask rendered by
\* the GPU and in the software mask
C20_IntersectThenReverseDifferenceIsEmpty ==
    C20_Case => \A p \in MaskPixels : mask.pixels[p] = 0

\* a path that leaves a pixel of the mask outside
C20_Witness ==
    /\ C20_Case
    /\ mask.construction = "gpu"
    /\ mask.elements[1].type = "kPath_Type"
    /\ mask.elements[1].path # MaskPixels
    /\ ~mask.elements[1].isInverseFilled

(***************************************************************************)
(* Properties of adjusted stencil settings.                                *)
(***************************************************************************)
Adjusted == adjust.phase = "adjusted"

\* the clip bit adjustStencilParams works with for the width of the buffer
AdjustClipBit == CHOOSE c \in ClipBits(adjust.stencilBitCnt) : TRUE

AdjustUserBits == UserBits(AdjustClipBit)

ClipRelative(f) == f.func \in ClipStencilFuncs

\* C21: for every bit count n of 1..16 the clip bit is 1 << (n - 1) and the
\* user bits are the clip bit less one: no bit in common, together the n low
\* bits; adjustStencilParams works with the clip bit createStencilClipMask
\* marked the clip with in the same stencil buffer
C21_ClipBitAndUserBits ==
    adjust.clipBit # NULL
        => LET n == adjust.stencilBitCnt
               clipBit == Deref(adjust.clipBit)
               userBits == UserBits(clipBit)
           IN  /\ n \in 1..kMaxStencilBits
               /\ clipBit = Pow2(n - 1)
               /\ userBits = clipBit - 1
               /\ BitAnd(clipBit, userBits) = 0
               /\ BitOr(clipBit, userBits) = Pow2(n) - 1
               /\ ClipBits(n) = {clipBit}

C21_Witness ==
    /\ Adjusted
    /\ adjust.mode = "kRespectClip_StencilClipMode"
    /\ adjust.stencilBitCnt = kMaxStencilBits
    /\ adjust.clipBit = Ref(Pow2(kMaxStencilBits - 1))
    /\ adjust.settings.front.func = "kAlwaysIfInClip_StencilFunc"
    /\ adjust.adjusted.front.funcRef = Pow2(kMaxStencilBits - 1)
    /\ adjust.adjusted.front.writeMask = Pow2(kMaxStencilBits - 1) - 1

\* C22: in the modify mode adjustStencilParams leaves both faces as they
\* were: function, write mask, function mask and reference
C22_ModifyClipLeavesSettings ==
    (Adjusted /\ adjust.mode = "kModifyClip_StencilClipMode")
        => /\ adjust.adjusted.front = adjust.settings.front
           /\ adjust.adjusted.back = adjust.settings.back

C22_Witness ==
    /\ Adjusted
    /\ adjust.mode = "kModifyClip_StencilClipMode"
    /\ ClipRelative(adjust.settings.front)
    /\ adjust.settings.front.funcMask = Pow2(kMaxStencilBits) - 1
    /\ adjust.settings.back # adjust.settings.front
    /\ ~twoSidedStencilSupport
    /\ adjust.adjusted = adjust.settings

\* the unconditional equivalent of a clip-relative function
UnconditionalFunc(func) ==
    CASE func = "kAlwaysIfInClip_StencilFunc" -> "kAlways_StencilFunc"
      [] func = "kEqualIfInClip_StencilFunc" -> "kEqual_StencilFunc"
      [] func = "kLessIfInClip_StencilFunc" -> "kLess_StencilFunc"
      [] func = "kLEqualIfInClip_StencilFunc" -> "kLEqual_StencilFunc"
      [] func = "kNonZeroIfInClip_StencilFunc" -> "kNotEqual_StencilFunc"
      [] OTHER -> func

\* a face with its function made unconditional and its masks and reference
\* cut to the user bits, the reference of the non-zero test being zero
IgnoredClipFace(f, userBits) ==
    [f EXCEPT !.func = UnconditionalFunc(f.func),
              !.writeMask = BitAnd(f.writeMask, userBits),
              !.funcMask = BitAnd(f.funcMask, userBits),
              !.funcRef = IF f.func = "kNonZeroIfInClip_StencilFunc" THEN 0
                          ELSE BitAnd(f.funcRef, userBits)]

\* C23: in the ignore mode every clip-relative function becomes its
\* unconditional equivalent, the non-zero test a not-equal against the
\* reference zero, and write mask, function mask and reference keep their
\* user bits only
C23_IgnoreClipResolvesToUnconditional ==
    (Adjusted /\ adjust.mode = "kIgnoreClip_StencilClipMode")
        => /\ adjust.adjusted.front
                = IgnoredClipFace(adjust.settings.front, AdjustUserBits)
           /\ adjust.adjusted.back
                = IgnoredClipFace(IF twoSidedStencilSupport THEN adjust.settings.back
                                  ELSE adjust.settings.front, AdjustUserBits)

\* what the code does in the ignore mode: the function and the masks as
\* above, the reference cut to the user bits whatever the function
IgnoreClipKeepsUserReference ==
    (Adjusted /\ adjust.mode = "kIgnoreClip_StencilClipMode")
        => LET expected == IgnoredClipFace(adjust.settings.front, AdjustUserBits)
               got == adjust.adjusted.front
           IN  /\ got.func = expected.func
               /\ got.writeMask = expected.writeMask
               /\ got.funcMask = expected.funcMask
               /\ got.funcRef = BitAnd(adjust.settings.front.funcRef, AdjustUserBits)

\* the verdict of a clip-relative function on the user bits u of a stored
\* value, the clip set aside
UserBitsVerdict(f, u, userBits) ==
    LET r == BitAnd(BitAnd(f.funcRef, f.funcMask), userBits)
        v == BitAnd(BitAnd(u, f.funcMask), userBits)
    IN  CASE f.func = "kAlwaysIfInClip_StencilFunc" -> TRUE
          [] f.func = "kEqualIfInClip_StencilFunc" -> r = v
          [] f.func = "kLessIfInClip_StencilFunc" -> r < v
          [] f.func = "kLEqualIfInClip_StencilFunc" -> r <= v
          [] f.func = "kNonZeroIfInClip_StencilFunc" -> v # 0

\* every value a buffer of up to StencilBits bits can store is tried
RespectsClip(in, out) ==
    \A s \in 0..(Pow2(adjust.stencilBitCnt) - 1) :
        StencilTest(out.func, out.funcRef, out.funcMask, s)
            <=> /\ BitAnd(s, AdjustClipBit) # 0
                /\ UserBitsVerdict(in, BitAnd(s, AdjustUserBits), AdjustUserBits)

\* C24: in the respect mode the resolved test of a clip-relative function
\* fails on every stored value whose clip bit is clear, and on a value whose
\* clip bit is set it passes exactly when the function's unconditional
\* equivalent holds on the user bits of the value
C24_RespectClipFoldsClipBit ==
    (/\ Adjusted
     /\ adjust.mode = "kRespectClip_StencilClipMode"
     /\ adjust.stencilBitCnt <= StencilBits)
        => /\ ClipRelative(adjust.settings.front)
                => RespectsClip(adjust.settings.front, adjust.adjusted.front)
           /\ (twoSidedStencilSupport /\ ClipRelative(adjust.settings.back))
                => RespectsClip(adjust.settings.back, adjust.adjusted.back)

C24_Witness ==
    /\ Adjusted
    /\ adjust.mode = "kRespectClip_StencilClipMode"
    /\ adjust.stencilBitCnt = StencilBits
    /\ adjust.settings.front.func = "kNonZeroIfInClip_StencilFunc"
    /\ adjust.settings.front.funcRef = 1
    /\ adjust.settings.front.funcMask = Pow2(kMaxStencilBits) - 1
    /\ adjust.adjusted.front.func = "kLess_StencilFunc"
    /\ StencilTest(adjust.adjusted.front.func, adjust.adjusted.front.funcRef,
                   adjust.adjusted.front.funcMask, Pow2(StencilBits - 1) + 1)
    /\ ~StencilTest(adjust.adjusted.front.func, adjust.adjusted.front.funcRef,
                    adjust.adjusted.front.funcMask, Pow2(StencilBits - 1))

\* C25: outside the modify mode, a backend without two-sided stencil gets
\* the adjusted front face on the back face too; a backend with it gets each
\* face adjusted from its own input
C25_BackFaceFollowsTwoSidedSupport ==
    (Adjusted /\ adjust.mode # "kModifyClip_StencilClipMode")
        => /\ adjust.adjusted.front
                = AdjustFace(adjust.settings.front, adjust.mode, AdjustClipBit)
           /\ adjust.adjusted.back
                = IF twoSidedStencilSupport
                  THEN AdjustFace(adjust.settings.back, adjust.mode, AdjustClipBit)
                  ELSE adjust.adjusted.front

C25_Witness ==
    /\ Adjusted
    /\ adjust.mode = "kRespectClip_StencilClipMode"
    /\ ~twoSidedStencilSupport
    /\ adjust.settings.back # adjust.settings.front
    /\ adjust.adjusted.back = adjust.adjusted.front
    /\ adjust.adjusted.back
         # AdjustFace(adjust.settings.back, adjust.mode, AdjustClipBit)

(***************************************************************************)
(* The stencil buffer as the cache of the stencil clip.                    *)
(***************************************************************************)
\* the clip createStencilClipMask asks the stencil buffer about
RequestedClip == ClipKey(args.genID, args.bounds, Negate(args.origin))

\* the call went through createStencilClipMask on a target with a stencil
\* buffer
C26_Case ==
    /\ Returned
    /\ LastTried = "stencil"
    /\ renderTarget.stencilBits > 0

\* C26: createStencilClipMask clears and draws only when the clip the
\* stencil buffer recorded (generation id, bounds, offset) is not the one
\* asked for; when it is the one asked for nothing is cleared or drawn, and
\* the mask type is stencil and the clip mode respect-clip all the same
C26_StencilClipRenderedOnlyWhenChanged ==
    C26_Case
    => /\ "clearStencilClip" \in trace.events <=> entry.lastClip # RequestedClip
       /\ clipDrawn # entry.clipDrawn => entry.lastClip # RequestedClip
       /\ entry.lastClip = RequestedClip
          => /\ "stencil clip reused" \in trace.events
             /\ "no stencil path renderer" \notin trace.events
             /\ lastClip = entry.lastClip
             /\ fCurrClipMaskType = "kStencil_ClipMaskType"
             /\ fClipMode = "kRespectClip_StencilClipMode"
             /\ ret = TRUE

\* the clip of the draw before, drawn again
C26_Witness ==
    /\ C26_Case
    /\ entry.lastClip = RequestedClip
    /\ prev.tried = <<"fast", "stencil">>
    /\ clipDrawn = {1}
    /\ "clearStencilClip" \notin trace.events
    /\ fCurrClipMaskType = "kStencil_ClipMaskType"

(***************************************************************************)
(* The mask type after a mask texture was installed.                       *)
(***************************************************************************)
\* C27: a call that returns success with a mask texture among the coverage
\* processors (rendered on the GPU or in software, just built or taken from
\* the cache) leaves the mask type alpha
C27_InstalledMaskTypedAlpha ==
    (Returned /\ ret = TRUE /\ HasMaskProcessor)
        => fCurrClipMaskType = "kAlpha_ClipMaskType"

\* what the code keeps of it: the mask type is alpha unless the texture came
\* out of the cache on the software path
InstalledMaskTypedAlphaUnlessSoftwareHit ==
    (Returned /\ ret = TRUE /\ HasMaskProcessor)
        => \/ fCurrClipMaskType = "kAlpha_ClipMaskType"
           \/ /\ fCurrClipMaskType = "kNone_ClipMaskType"
              /\ "createSoftwareClipMask" \in trace.events
              /\ "cache hit" \in trace.events

(***************************************************************************)
(* The alpha mask against the stencil clip.                                *)
(***************************************************************************)
\* the pixels an alpha mask of binary coverage marks inside
AlphaInside == { p \in MaskPixels : mask.pixels[p] = kFullCoverage }

\* the clips createStencilClipMask leaves in the stencil buffer for the list
\* and the initial state of the mask followed, when it renders them all
StencilClips ==
    { { p \in MaskPixels : o.pixels[p] } :
        o \in { x \in StencilClipLoop(StencilClipClear(mask.initialState),
                                      mask.elements, 1) : x.built } }

\* a list as the reduction gives it: a replace element comes first and makes
\* the initial state all-out
ReplaceStartsAllOut ==
    \A i \in 1..Len(mask.elements) :
        mask.elements[i].op = "kReplace_Op"
            => (i = 1 /\ mask.initialState = "kAllOut_InitialState")

C28_Case ==
    /\ MaskBuilt
    /\ mask.construction = "gpu"
    /\ ReplaceStartsAllOut

\* C28: the pixels the alpha mask construction marks inside are the pixels
\* whose clip bit the stencil construction sets, for the same reduced list,
\* initial state and bounds
C28_AlphaMaskAgreesWithStencilClip ==
    C28_Case => \A clip \in StencilClips : clip = AlphaInside

\* what the code keeps of it: the two agree when no element is a path drawn
\* straight into the accumulator, the one draw whose failure goes unnoticed
AlphaMaskAgreesUnlessDrawDropped ==
    (/\ C28_Case
     /\ \A i \in 1..Len(mask.elements) :
          TwoPhase(mask.elements[i]) \/ mask.elements[i].type = "kRect_Type")
        => /\ StencilClips # {}
           /\ \A clip \in StencilClips : clip = AlphaInside

(***************************************************************************)
(* Properties of a recorder.                                               *)
(***************************************************************************)
\* the saveLayer calls not yet restored
UnrestoredLayers == { i \in 1..Len(recorder.saves) : recorder.saves[i] }

\* C29: after any saves, saveLayers and restores (never more restores than
\* saves) isDrawingToLayer() is true exactly when a saveLayer is still
\* unrestored; plain saves and their restores do not count
C29_IsDrawingToLayerCountsLayers ==
    Recording
        => /\ isDrawingToLayer(recorder) <=> UnrestoredLayers # {}
           /\ recorder.fSaveLayerCount = Cardinality(UnrestoredLayers)

\* the test at its deepest: save, saveLayer, save, saveLayer, one restore
C29_Witness ==
    /\ Recording
    /\ recorder.saves = <<FALSE, TRUE, FALSE>>
    /\ recorder.fSaveLayerCount = 1
    /\ isDrawingToLayer(recorder)

\* C30: a recorded call with a ref-counted argument makes the record one
\* more owner of it while recorder and record live; their destruction lets
\* go of exactly the references taken, and the owner count is back at its
\* value before the recording
C30_RecordOwnsUntilDestroyed ==
    \A obj \in RefCounted :
        /\ Recording
             => /\ recorder.fRefCnt[obj]
                     = recorder.before[obj] + RecordRefs(recorder.record, obj)
                /\ RecordRefs(recorder.record, obj) > 0 => ~unique(recorder, obj)
        /\ recorder.phase = "destroyed"
             => recorder.fRefCnt[obj] = recorder.before[obj]

\* the shader of a saveLayer's paint and the image of a drawImage, unique
\* before and unique again once recorder and record are gone
C30_Witness ==
    /\ recorder.phase = "destroyed"
    /\ recorder.destroyed = <<Recorded("SaveLayer", "shader"), Recorded("DrawImage", "image")>>
    /\ \A obj \in RefCounted : recorder.before[obj] = 1 /\ unique(recorder, obj)

(***************************************************************************)
(* installClipEffects, element by element.                                 *)
(***************************************************************************)
InverseEdgeTypes ==
    {"kInverseFillAA_GrProcessorEdgeType", "kInverseFillBW_GrProcessorEdgeType"}

\* the processors installClipEffects added for element i
ProcessorsOf(i) == { k \in 1..Len(AddedCoverage) : AddedCoverage[k].element = i }

InstallFailed == Len(trace.tried) > 1

StencilReached(tried) == \E i \in 1..Len(tried) : tried[i] = "stencil"

\* what a mask construction that found nothing in the cache starts with
MaskRebuildEvents == {"clear mask", "software mask drawn", "allocMaskTexture failed"}

\* the call before this one started with a mask cached for the clip of this
\* call, and reached the stencil fallback
C32_Case ==
    /\ Returned /\ AlphaTried
    /\ StencilReached(prev.tried)
    /\ prev.entryCache # NULL
    /\ prev.entryCache[1].fLastClipGenID = args.genID
    /\ prev.entryCache[1].fLastBound = args.bounds
    /\ prev.entryCache[1].fLastMask # NULL

\* C32: a call that reaches the stencil fallback (straight away or after a
\* failed alpha mask) leaves the mask cache empty; the alpha mask call after
\* it starts from an empty cache, finds no texture, whatever the generation
\* id and bounds, and builds the mask anew
C32_StencilFallbackEmptiesMaskCache ==
    /\ (Returned /\ StencilReached(trace.tried)) => fAACache = NULL
    /\ (Returned /\ AlphaTried /\ StencilReached(prev.tried))
       => /\ entry.cache = NULL
          /\ "cache hit" \notin trace.events
          /\ trace.events \cap MaskRebuildEvents # {}

\* alpha mask for a clip, a call that ends in the stencil, the first clip
\* again: its mask is built a second time
C32_Witness ==
    /\ C32_Case
    /\ "clear mask" \in trace.events
    /\ LastTried = "alpha"
    /\ ret = TRUE
    /\ fAACache # NULL
    /\ fAACache[1].fLastClipGenID = args.genID

(***************************************************************************)
(* The clip mode between calls.                                            *)
(***************************************************************************)
\* C33: when a call of setupClipping issued by a caller returns, whatever
\* the calls before it, the clip mode is respect-clip exactly when the mask
\* type is stencil, and it is not modify-clip; no such call starts in
\* modify-clip either: that mode is confined to the element loop of
\* createStencilClipMask
C33_ClipModeFollowsMaskType ==
    /\ fClipMode # "kModifyClip_StencilClipMode"
    /\ entry.mode # "kModifyClip_StencilClipMode"
    /\ Returned
       => (fClipMode = "kRespectClip_StencilClipMode"
           <=> fCurrClipMaskType = "kStencil_ClipMaskType")

\* after a call that built the stencil clip: createStencilClipMask gives up
\* at the second element, having drawn the clip-bit passes of the first
C33_Witness ==
    /\ Returned
    /\ entry.mode = "kRespectClip_StencilClipMode"
    /\ "no stencil path renderer" \in trace.events
    /\ clipDrawn = {1}
    /\ fClipMode = "kIgnoreClip_StencilClipMode"
    /\ fCurrClipMaskType = "kNone_ClipMaskType"

(***************************************************************************)
(* The stencil bit count handed to adjustStencilParams.                    *)
(***************************************************************************)
StencilResolved == ~IsDisabled(entry.ds.stencil) \/ fClipMode = "kRespectClip_StencilClipMode"

\* C34: whenever setDrawStateStencil resolves settings, the render target
\* has a stencil buffer of at least one bit: "SkASSERT(stencilBitCnt > 0)"
\* holds on every path through setupClipping
C34_StencilBitsPositiveWhenResolved ==
    (Returned /\ ret = TRUE /\ StencilResolved)
    => /\ renderTarget.stencilBits > 0
       /\ "assert stencilBitCnt > 0" \notin trace.events

\* what the code keeps of it: the clip mode is respect-clip only on a target
\* with a stencil buffer, so the assertion can only fail for a draw that
\* brings stencil settings of its own to a target without one
AssertFailsOnlyForOwnStencil ==
    Returned
    => /\ fClipMode = "kRespectClip_StencilClipMode" => renderTarget.stencilBits > 0
       /\ "assert stencilBitCnt > 0" \in trace.events
          <=> (ret = TRUE /\ renderTarget.stencilBits = 0
               /\ ~IsDisabled(entry.ds.stencil))

(***************************************************************************)
(* The clip bit is out of reach of a draw's stencil settings.              *)
(***************************************************************************)
\* the face of the settings handed in that a face of the result comes from
AdjustSource(face) ==
    IF face = "back" /\ twoSidedStencilSupport THEN adjust.settings.back
    ELSE adjust.settings.front

\* C35: in the ignore and respect modes the write mask adjustStencilParams
\* leaves on either face is the one handed in cut to the user bits, so the
\* clip bit is clear in it; a face with a basic function keeps the function
\* and has function mask and reference cut to the user bits
C35_WriteMaskSparesClipBit ==
    (Adjusted /\ adjust.mode # "kModifyClip_StencilClipMode")
    => \A face \in {"front", "back"} :
         LET in == AdjustSource(face)
             out == adjust.adjusted[face]
         IN  /\ BitAnd(out.writeMask, Deref(adjust.clipBit)) = 0
             /\ out.writeMask = BitAnd(in.writeMask, AdjustUserBits)
             /\ ~ClipRelative(in)
                => /\ out.func = in.func
                   /\ out.funcMask = BitAnd(in.funcMask, AdjustUserBits)
                   /\ out.funcRef = BitAnd(in.funcRef, AdjustUserBits)
                   /\ BitAnd(out.funcMask, Deref(adjust.clipBit)) = 0
                   /\ BitAnd(out.funcRef, Deref(adjust.clipBit)) = 0

\* a basic function with every bit set in masks and reference, on a stencil
\* buffer of StencilBits bits whose clip is respected
C35_Witness ==
    /\ Adjusted
    /\ adjust.mode = "kRespectClip_StencilClipMode"
    /\ adjust.stencilBitCnt = StencilBits
    /\ twoSidedStencilSupport
    /\ adjust.settings.front.func = "kLess_StencilFunc"
    /\ adjust.settings.front.writeMask = Pow2(kMaxStencilBits) - 1
    /\ adjust.settings.front.funcRef = Pow2(kMaxStencilBits) - 1
    /\ adjust.settings.back # adjust.settings.front
    /\ adjust.adjusted.front.writeMask = Pow2(StencilBits - 1) - 1
    /\ adjust.adjusted.front.funcRef = Pow2(StencilBits - 1) - 1
    /\ adjust.adjusted.back.writeMask = Pow2(StencilBits - 1) - 1

(***************************************************************************)
(* The clip the stencil buffer has on record.                              *)
(***************************************************************************)
RenderedCompletely == clipDrawn = 1..Count

\* C36: the stencil buffer has the key of a clip on record only if the clip
\* was rendered completely; after a rendering that was given up for want of
\* a path renderer, a call with the same key renders the clip again
C36_LastClipOnlyAfterCompleteRender ==
    C26_Case
    => /\ lastClip = RequestedClip => RenderedCompletely
       /\ (entry.lastClip = RequestedClip /\ entry.clipDrawn # 1..Count)
          => "clearStencilClip" \in trace.events

\* what the code keeps of it: the key is put on record before the first
\* element is rendered and stays there when the rendering is given up; the
\* call after it with that key renders nothing and has the clip respected
LastClipRecordedBeforeRendering ==
    C26_Case
    => /\ lastClip = RequestedClip
       /\ "no stencil path renderer" \in trace.events => ~RenderedCompletely
       /\ (entry.lastClip = RequestedClip /\ entry.clipDrawn # 1..Count)
          => /\ "stencil clip reused" \in trace.events
             /\ clipDrawn = entry.clipDrawn
             /\ fCurrClipMaskType = "kStencil_ClipMaskType"
             /\ fClipMode = "kRespectClip_StencilClipMode"
             /\ ret = TRUE

\* the clip of the call before, given up at its second element, is taken
\* for rendered by this call
StaleStencilClipReused ==
    /\ C26_Case
    /\ Count = 2
    /\ entry.lastClip = RequestedClip
    /\ prev.genID = args.genID /\ prev.bounds = args.bounds
    /\ clipDrawn = {1}
    /\ "stencil clip reused" \in trace.events
    /\ fClipMode = "kRespectClip_StencilClipMode"
    /\ ret = TRUE

(***************************************************************************)
(* The alpha mask, rendered by the GPU or in software, against the set     *)
(* operators of the list.                                                  *)
(***************************************************************************)
\* the operators of the list applied left to right to the pixels in the
\* clip so far, from element i on
RECURSIVE SetOpFold(_, _, _)
SetOpFold(clip, elements, i) ==
    IF i > Len(elements) THEN clip
    ELSE SetOpFold({ p \in MaskPixels : SetOp(elements[i].op, p \in clip,
                                              p \in Region(elements[i])) },
                   elements, i + 1)

FoldedClip ==
    SetOpFold(IF mask.initialState = "kAllIn_InitialState" THEN MaskPixels ELSE {},
              mask.elements, 1)

\* the mask createSoftwareClipMask draws for the list followed
SoftwareMask == SoftwareMaskLoop(SoftwareClear(mask.initialState), mask.elements, 1)

\* a path that goes straight into the accumulator: the draw whose failure
\* createAlphaClipMask does not notice
DroppableDraw(e) == ~TwoPhase(e) /\ e.type # "kRect_Type"

C37_Case ==
    /\ MaskBuilt
    /\ mask.construction \in {"gpu", "software"}
    /\ ReplaceStartsAllOut

\* C37: for a reduced list of binary coverage the alpha mask the GPU
\* construction gives is, pixel for pixel, the mask the software
\* construction gives, and both mark inside exactly the pixels that the
\* left-to-right fold of the operators over the initial state leaves in the
\* clip
C37_AlphaMaskIsFoldOfSetOps ==
    C37_Case
    => /\ mask.pixels = SoftwareMask
       /\ AlphaInside = FoldedClip
       /\ \A p \in MaskPixels : mask.pixels[p] \in {0, kFullCoverage}

\* what the code keeps of it: the software mask is the fold, and so is the
\* GPU mask of a list without a path drawn straight into the accumulator
MasksAreFoldUnlessDrawDropped ==
    (/\ C37_Case
     /\ \/ mask.construction = "software"
        \/ \A i \in 1..Len(mask.elements) : ~DroppableDraw(mask.elements[i]))
    => /\ mask.pixels = SoftwareMask
       /\ AlphaInside = FoldedClip
       /\ \A p \in MaskPixels : mask.pixels[p] \in {0, kFullCoverage}

(***************************************************************************)
(* Draws that come back to setupClipping from a mask construction.         *)
(***************************************************************************)
\* the clip modes a mask construction draws in
ConstructionModes == {"kIgnoreClip_StencilClipMode", "kModifyClip_StencilClipMode"}

\* what a call leaves in the trace when it goes for a mask
MaskAttemptEvents ==
    MaskBuildEvents
    \cup {"createAlphaClipMask", "createSoftwareClipMask", "cache hit",
          "clearStencilClip", "stencil clip reused", "no stencil buffer",
          "no stencil path renderer"}

\* the manager as a nested call finds it: this state, in a mode of the
\* construction
UnderConstruction(mode) == [Bundle EXCEPT !.mode = mode]

\* C38: a draw issued while a mask is built comes back to setupClipping
\* with the bounds of the mask as its only clip; that call returns, by the
\* ignore branch or the scissor of the fast path, without going for a mask
\* of its own (so no construction starts within a construction), and it
\* leaves the mask type none, the clip mode, the mask cache and the stencil
\* buffer's record as the construction has them: the mask type is none when
\* the construction sets it
C38_NestedCallsBuildNoMask ==
    \A mode \in ConstructionModes, b \in NestedBounds, st \in StencilChoices :
        LET m == UnderConstruction(mode)
            nested == NestedSetupClipping(m, b, st)
        IN  /\ nested # {}
            /\ \A o \in nested :
                 /\ o.ret = TRUE
                 /\ o.m.trace.tried \in {<< >>, <<"fast">>}
                 /\ o.m.trace.events \cap MaskAttemptEvents = {}
                 /\ o.m.type = "kNone_ClipMaskType"
                 /\ o.m.type = NestedDraw(m).type
                 /\ o.m.mode = NestedDraw(m).mode
                 /\ o.m.mode = mode
                 /\ o.m.cache = m.cache
                 /\ o.m.lastClip = m.lastClip
                 /\ o.m.clipDrawn = m.clipDrawn

\* after a call that left the mask type alpha: the stencil clip of a list of
\* two elements is built, each element with draws that come back to
\* setupClipping, and the mask type is set after them
C38_Witness ==
    /\ Returned
    /\ entry.type = "kAlpha_ClipMaskType"
    /\ Count = 2
    /\ clipDrawn = {1, 2}
    /\ fCurrClipMaskType = "kStencil_ClipMaskType"
    /\ \E o \in NestedSetupClipping(UnderConstruction("kModifyClip_StencilClipMode"),
                                    ShiftedBounds, UserStencil) :
         /\ o.m.trace.tried = <<"fast">>
         /\ o.m.scissor.fEnabled
         /\ o.m.type = "kNone_ClipMaskType"

(***************************************************************************)
(* SkPictureImageFilter through a buffer.  flatten writes the filter into  *)
(* an SkWriteBuffer value by value, CreateProc reads an SkReadBuffer value *)
(* by value and makes a filter of what it read.  A buffer is the sequence  *)
(* of the values written; a read of a value that is not there, or of       *)
(* another kind, leaves the buffer invalid and gives the default value.    *)
(***************************************************************************)
PictureResolutions ==
    {"kDeviceSpace_PictureResolution", "kLocalSpace_PictureResolution"}

Pictures == {NULL, Ref("pictureA"), Ref("pictureB")}

CropRects == { MakeWH(w, h) : w \in 0..RTWidth, h \in 0..RTHeight }

\* the constructor taking a crop rect and a resolution
PictureImageFilter(picture, cropRect, pictureResolution) ==
    [fPicture |-> picture, fCropRect |-> cropRect,
     fPictureResolution |-> pictureResolution]

Create(picture, cropRect) ==
    PictureImageFilter(picture, cropRect, "kDeviceSpace_PictureResolution")

CreateForLocalSpace(picture, cropRect) ==
    PictureImageFilter(picture, cropRect, "kLocalSpace_PictureResolution")

\* the enum as the int that writeInt stores
PictureResolutionInt(pictureResolution) ==
    IF pictureResolution = "kLocalSpace_PictureResolution" THEN 1 ELSE 0

BoolValue(b) == [kind |-> "bool", b |-> b]

PictureValue(p) == [kind |-> "picture", picture |-> p]

RectValue(r) == [kind |-> "rect", rect |-> r]

IntValue(i) == [kind |-> "int", int |-> i]

\* flatten with the resolution written ahead of the crop rect
flatten_ResolutionFirst(f, isCrossProcess) ==
    LET hasPicture == f.fPicture # NULL
        head == IF ~isCrossProcess
                THEN IF hasPicture
                     THEN <<BoolValue(TRUE), PictureValue(Deref(f.fPicture))>>
                     ELSE <<BoolValue(FALSE)>>
                ELSE <<BoolValue(FALSE)>>
    IN  head \o <<IntValue(PictureResolutionInt(f.fPictureResolution)),
                  RectValue(f.fCropRect)>>

\* SkPictureImageFilter::flatten: what it writes into an empty buffer
flatten(f, isCrossProcess) ==
    LET hasPicture == f.fPicture # NULL
        head == IF ~isCrossProcess
                THEN IF hasPicture
                     THEN <<BoolValue(TRUE), PictureValue(Deref(f.fPicture))>>
                     ELSE <<BoolValue(FALSE)>>
                ELSE <<BoolValue(FALSE)>>
    IN  head \o <<RectValue(f.fCropRect),
                  IntValue(PictureResolutionInt(f.fPictureResolution))>>

\* a read buffer: the values, the position of the next read, validity
ReadBuffer(data) == [data |-> data, pos |-> 1, isValid |-> TRUE]

\* the next value is there and of the kind asked for
CanRead(buffer, kind) ==
    /\ buffer.isValid
    /\ buffer.pos <= Len(buffer.data)
    /\ buffer.data[buffer.pos].kind = kind

\* the buffer after a read of a value of the kind
Advance(buffer, kind) ==
    IF CanRead(buffer, kind) THEN [buffer EXCEPT !.pos = @ + 1]
    ELSE [buffer EXCEPT !.isValid = FALSE]

readBool(buffer) == IF CanRead(buffer, "bool") THEN buffer.data[buffer.pos].b ELSE FALSE

\* SkPicture::CreateFromBuffer
CreateFromBuffer(buffer) ==
    IF CanRead(buffer, "picture") THEN Ref(buffer.data[buffer.pos].picture) ELSE NULL

readRect(buffer) ==
    IF CanRead(buffer, "rect") THEN buffer.data[buffer.pos].rect ELSE MakeWH(0, 0)

readInt(buffer) == IF CanRead(buffer, "int") THEN buffer.data[buffer.pos].int ELSE 0

\* SkReadBuffer::validate
validate(buffer, isValid) == [buffer EXCEPT !.isValid = @ /\ isValid]

\* SkPictureImageFilter::CreateProc: the filter it returns and the buffer it
\* leaves; storesResolution is "!buffer.isVersionLT(
\* kPictureImageFilterResolution_Version)"
CreateProc(data, isCrossProcess, storesResolution) ==
    LET b0 == ReadBuffer(data)
        flag == readBool(b0)
        b1 == Advance(b0, "bool")
        hasPicture == ~isCrossProcess /\ flag
        picture == IF hasPicture THEN CreateFromBuffer(b1) ELSE NULL
        b2 == IF hasPicture THEN Advance(b1, "picture")
              ELSE IF isCrossProcess THEN validate(b1, ~flag)
              ELSE b1
        cropRect == readRect(b2)
        b3 == Advance(b2, "rect")
        pictureResolution ==
            IF storesResolution THEN readInt(b3)
            ELSE PictureResolutionInt("kDeviceSpace_PictureResolution")
        b4 == IF storesResolution THEN Advance(b3, "int") ELSE b3
    IN  [created |->
            IF pictureResolution = PictureResolutionInt("kLocalSpace_PictureResolution")
            THEN CreateForLocalSpace(picture, cropRect)
            ELSE Create(picture, cropRect),
         isValid |-> b4.isValid]

Filters ==
    { PictureImageFilter(p, r, res) :
        p \in Pictures, r \in CropRects, res \in PictureResolutions }

\* buffers that no flatten of this version wrote: a flag with or without a
\* picture behind it, a crop rect, and a resolution, an int that names none,
\* or none at all
ReceivedData ==
    { <<BoolValue(flag)>>
      \o (IF p = NULL THEN << >> ELSE <<PictureValue(Deref(p))>>)
      \o <<RectValue(MakeWH(RTWidth, RTHeight))>>
      \o res :
        flag \in BOOLEAN, p \in Pictures,
        res \in {<< >>} \cup { <<IntValue(i)>> : i \in 0..2 } }

InitFilter ==
    /\ ManagerInit
    /\ renderTarget = [numSamples |-> 0, stencilBits |-> StencilBits]
    /\ twoSidedStencilSupport
    /\ mask = NoMaskWork
    /\ adjust = NoAdjust
    /\ recorder = NoRecorder
    /\ \E cross \in BOOLEAN, stores \in BOOLEAN :
         \/ \E f \in Filters :
              filter = [NoFilter EXCEPT !.phase = "original", !.original = Ref(f),
                                        !.isCrossProcess = cross,
                                        !.storesResolution = stores]
         \/ \E d \in ReceivedData :
              filter = [NoFilter EXCEPT !.phase = "buffered", !.data = d,
                                        !.isCrossProcess = cross,
                                        !.storesResolution = stores]

\* filter->flatten(buffer)
Flatten ==
    /\ filter.phase = "original"
    /\ filter' = [filter EXCEPT !.phase = "buffered",
                                !.data = flatten(Deref(filter.original),
                                                 filter.isCrossProcess)]
    /\ UNCHANGED <<ManagerVars, mask, adjust, recorder>>

\* SkPictureImageFilter::CreateProc(buffer)
Unflatten ==
    /\ filter.phase = "buffered"
    /\ LET o == CreateProc(filter.data, filter.isCrossProcess, filter.storesResolution)
       IN  filter' = [filter EXCEPT !.phase = "created", !.created = Ref(o.created),
                                    !.isValid = o.isValid]
    /\ UNCHANGED <<ManagerVars, mask, adjust, recorder>>

NextFilter ==
    \/ Flatten
    \/ Unflatten

SpecFilter == InitFilter /\ [][NextFilter]_vars

(***************************************************************************)
(* Properties of a filter read back.                                       *)
(***************************************************************************)
Created == filter.phase = "created"

RoundTrip == Created /\ filter.original # NULL

HasPictureFlag == filter.data # << >> /\ filter.data[1] = BoolValue(TRUE)

\* C39: a filter written by flatten and read back by CreateProc from a
\* buffer that is not cross-process and stores the resolution has the crop
\* rect and the resolution of the original, and a picture exactly when the
\* original has one; into a cross-process buffer flatten writes the flag
\* false and no picture, and CreateProc leaves a cross-process buffer valid
\* only if the flag read is false
C39_FlattenCreateProcRoundTrip ==
    /\ (RoundTrip /\ ~filter.isCrossProcess /\ filter.storesResolution)
       => LET f == Deref(filter.original)
              g == Deref(filter.created)
          IN  /\ filter.isValid
              /\ g.fCropRect = f.fCropRect
              /\ g.fPictureResolution = f.fPictureResolution
              /\ g.fPicture # NULL <=> f.fPicture # NULL
    /\ (filter.phase # "original" /\ filter.original # NULL /\ filter.isCrossProcess)
       => /\ filter.data[1] = BoolValue(FALSE)
          /\ \A i \in 1..Len(filter.data) : filter.data[i].kind # "picture"
          /\ Created => Deref(filter.created).fPicture = NULL
    /\ (Created /\ filter.isCrossProcess /\ filter.isValid) => ~HasPictureFlag

\* a filter in local space with a picture and a crop rect of its own comes
\* back as it was
C39_Witness ==
    /\ RoundTrip /\ ~filter.isCrossProcess /\ filter.storesResolution
    /\ Deref(filter.original).fPicture = Ref("pictureB")
    /\ Deref(filter.original).fPictureResolution = "kLocalSpace_PictureResolution"
    /\ Deref(filter.original).fCropRect = MakeWH(RTWidth, RTHeight)
    /\ filter.created = filter.original
    /\ filter.isValid

====
